---- MODULE Spec2Model ----
(***************************************************************************)
(* Model of the synchronisation and reconciliation engine of the travel    *)
(* planner: the online-first repositories and the full trip reconciler of  *)
(* src/lib/syncService.ts (first listing, lines 1-1100), the bulk          *)
(* import/export engine of src/lib/dataExport.ts and the trip-open access  *)
(* gate of src/pages/trip/[tripId].tsx.                                    *)
(*                                                                         *)
(* JavaScript values that the code inspects by type (typeof x ===          *)
(* 'number', String(x), x !== undefined, !x) are modelled as tagged        *)
(* records [t, n]: a number n, the decimal string of n, a server-issued    *)
(* key, undefined, null, NaN and the literal strings "undefined"/"null".   *)
(***************************************************************************)
EXTENDS Integers, Sequences, FiniteSets, TLC

VARIABLES
    online,     \* navigator.onLine, the answer of isOnline()
    remote,     \* the Supabase tables
    db,         \* the Dexie tables
    nextKey,    \* per Dexie table: the next auto-increment primary key
    nextUuid,   \* the next key the server issues
    tx,         \* the Dexie read-write transaction in progress, if any
    sync,       \* the syncTripFromSupabase call in flight
    reader,     \* a reader of a trip's children running beside the sync
    ret,        \* what the last completed repository call did and returned
    imp,        \* the importTripsData call in flight
    exported,   \* the last document produced by exportTripsData
    open        \* the trip-open request (ensure) in flight

vars == <<online, remote, db, nextKey, nextUuid, tx, sync, reader, ret, imp, exported, open>>

----------------------------------------------------------------------------
(* Bounds of the model *)

MaxTrips == 1      \* largest auto-increment key of the Dexie trips table
MaxKey == 2        \* largest auto-increment key of a Dexie child table
MaxUuid == 2       \* number of keys the server issues
MaxFailing == 1    \* number of the parallel selects of one sync that may fail

----------------------------------------------------------------------------
(* JavaScript values *)

Num(n) == [t |-> "num", n |-> n]
Str(n) == [t |-> "str", n |-> n]
Uuid(i) == [t |-> "uuid", n |-> i]
undefined == [t |-> "undefined", n |-> 0]
null == [t |-> "null", n |-> 0]
NaN == [t |-> "nan", n |-> 0]

\* String(v)
String(v) ==
    CASE v.t = "num" -> Str(v.n)
      [] v.t = "undefined" -> [t |-> "lit_undefined", n |-> 0]
      [] v.t = "null" -> [t |-> "lit_null", n |-> 0]
      [] v.t = "nan" -> [t |-> "lit_NaN", n |-> 0]
      [] OTHER -> v

\* Number(v) / parseInt(v, 10) on the values of the model
Number(v) ==
    CASE v.t = "num" -> v
      [] v.t = "str" -> Num(v.n)
      [] OTHER -> NaN

\* !!v
Truthy(v) ==
    CASE v.t \in {"undefined", "null", "nan"} -> FALSE
      [] v.t = "num" -> v.n # 0
      [] OTHER -> TRUE

\* a ?? b
Coalesce(a, b) == IF a.t \in {"undefined", "null"} THEN b ELSE a

\* what the server stores for an inserted value: a column left out reads null
Column(v) == IF v.t = "undefined" THEN null ELSE v

\* typeof v === 'number'
IsNumber(v) == v.t \in {"num", "nan"}

\* the issync field: true, false, or not set at all
SyncTrue == "true"
SyncFalse == "false"
SyncUnset == "unset"

\* an array-valued field (charged_to): not set, an array, or the JSON text
\* of an array
NoList == [kind |-> "none", items |-> <<>>]
List(s) == [kind |-> "array", items |-> s]

\* Array.isArray(x)
IsArray(x) == x.kind = "array"

\* JSON.stringify(x) of an array, JSON.parse(x) of the text of an array
JSONStringify(x) == IF x.kind = "array" THEN [x EXCEPT !.kind = "json"] ELSE x
JSONParse(x) == IF x.kind = "json" THEN [x EXCEPT !.kind = "array"] ELSE x

----------------------------------------------------------------------------
(* Tables *)

ChildTables == {"places", "itinerary", "packing", "travelers", "expenses"}
Tables == ChildTables \cup {"trips"}

\* the order in which syncTripFromSupabase and importTripsData walk the tables
TableOrder == <<"places", "itinerary", "packing", "travelers", "expenses">>

EmptyStore == [t \in Tables |-> {}]

RECURSIVE SetToSeqBy(_, _)
\* rows of a set as an array, ordered by the rank f[row]
SetToSeqBy(S, f) ==
    IF S = {} THEN <<>>
    ELSE LET m == CHOOSE x \in S : \A y \in S : f[x] <= f[y]
         IN <<m>> \o SetToSeqBy(S \ {m}, f)

SeqToSet(s) == {s[i] : i \in 1..Len(s)}

\* table.toArray(): rows in primary-key order
ToArray(S) == SetToSeqBy(S, [r \in S |-> r.dexieid])

\* table.where('trip_id').equals(tripId)
WhereTripId(S, tripId) == {r \in S : r.trip_id = tripId}

\* table.bulkAdd(rows) / table.add(row): keys are handed out in array order
BulkAdd(S, rows, nk) ==
    S \cup {[rows[i] EXCEPT !.dexieid = nk + i - 1] : i \in 1..Len(rows)}

\* a trip's child records, table by table
Children(store, tripId) == [t \in ChildTables |-> WhereTripId(store[t], tripId)]

----------------------------------------------------------------------------
(* The Dexie transaction lock: IndexedDB runs transactions whose scopes    *)
(* overlap one after the other, in the order they were created.            *)

NoTx == [owner |-> "none", scope |-> {}]

TablesFree(S) == tx.scope \cap S = {}

\* a new implicit transaction on the tables S may start now
CanRun(S) == TablesFree(S) /\ ~(reader.pc = "waiting" /\ S \cap ChildTables # {})

----------------------------------------------------------------------------
(* Rows.  title (name for travelers) stands for the payload columns the    *)
(* code copies verbatim (title, time, url, remark, colour, e-mail, ...).   *)

User(i) == [t |-> "user", n |-> i]
Title(i) == [t |-> "text", n |-> i]

\* the column that holds a table's server-issued key
RemoteId(t, r) ==
    CASE t = "trips" -> r.trip_id
      [] t = "places" -> r.place_id
      [] t = "itinerary" -> r.itinerary_id
      [] t = "packing" -> r.packing_id
      [] t = "travelers" -> r.traveler_id
      [] t = "expenses" -> r.expense_id

\* supabase.from(t).select('*').eq('trip_id', String(tripId)): the rows in
\* the order the server issued their keys
SelectByTrip(t, tripId) ==
    LET S == {r \in remote[t] : r.trip_id = String(tripId)}
    IN SetToSeqBy(S, [r \in S |-> RemoteId(t, r).n])

\* the mapping of a fetched row to a Dexie row in syncTripFromSupabase
\* (the primary key is filled in by bulkAdd)
SyncRow(t, item) ==
    CASE t = "places" ->
           [dexieid |-> 0, place_id |-> item.place_id, trip_id |-> item.trip_id,
            issync |-> SyncTrue, title |-> item.title]
      [] t = "itinerary" ->
           [dexieid |-> 0, itinerary_id |-> item.itinerary_id, trip_id |-> item.trip_id,
            issync |-> SyncTrue, day_index |-> item.day_index, title |-> item.title,
            place_id |-> item.place_id, order |-> item.order]
      [] t = "packing" ->
           [dexieid |-> 0, packing_id |-> item.packing_id, trip_id |-> item.trip_id,
            issync |-> SyncTrue, title |-> item.title, completed |-> item.completed,
            order |-> item.order]
      [] t = "travelers" ->
           [dexieid |-> 0, traveler_id |-> item.traveler_id, trip_id |-> item.trip_id,
            issync |-> SyncTrue, name |-> item.name]
      [] t = "expenses" ->
           [dexieid |-> 0, expense_id |-> item.expense_id, trip_id |-> item.trip_id,
            issync |-> SyncTrue, title |-> item.title, amount |-> item.amount,
            payer_id |-> Coalesce(item.payer_id, undefined),
            charged_to |-> IF item.charged_to.kind = "json"
                           THEN JSONParse(item.charged_to) ELSE item.charged_to]

----------------------------------------------------------------------------
(* What a completed call reports: the operation, the answer isOnline()     *)
(* gave it, the number of remote-store calls it attempted, whether it      *)
(* threw, the kind of value it returned and the rows of that value;        *)
(* fetchError says that a remote read of the call answered with an error   *)
(* or rejected, arg is the id a read or delete operation was called with,  *)
(* before the local records a delete operation was aimed at, as they were  *)
(* when it was called.                                                     *)

Ret(op, onl, calls, raised, kind, rows) ==
    [op |-> op, online |-> onl, remoteCalls |-> calls, raised |-> raised,
     kind |-> kind, rows |-> rows, fetchError |-> FALSE, arg |-> undefined,
     before |-> <<>>]

NoRet == Ret("none", TRUE, 0, FALSE, "void", <<>>)

----------------------------------------------------------------------------
(* Connectivity *)

GoOnline == /\ ~online
            /\ online' = TRUE
            /\ UNCHANGED <<remote, db, nextKey, nextUuid, tx, sync, reader, ret, imp, exported, open>>

GoOffline == /\ online
             /\ online' = FALSE
             /\ UNCHANGED <<remote, db, nextKey, nextUuid, tx, sync, reader, ret, imp, exported, open>>

----------------------------------------------------------------------------
(* syncTripFromSupabase: the full trip reconciler *)

NoRes == [t \in ChildTables |-> [error |-> FALSE, data |-> <<>>]]
NoChildren == [t \in ChildTables |-> {}]

\* a second call of syncTripFromSupabase that runs beside the first (the
\* trip page's effect runs again while its earlier run is still awaiting);
\* res and post keep what its last run fetched and wrote
IdleOverlap == [pc |-> "idle", tripId |-> undefined, res |-> NoRes, step |-> 0,
                post |-> NoChildren]

IdleSync == [pc |-> "idle", tripId |-> undefined, res |-> NoRes, step |-> 0,
             snap |-> NoChildren, post |-> NoChildren, overlap |-> IdleOverlap]

AnyFetchError(res) == \E t \in ChildTables : res[t].error

\* the reconciliation run without a transaction: no table is locked
TxScopeNone == {}

\* the tables the reconciling transaction locks
TxScope == ChildTables

\* isOnline(), the early return, and the five parallel selects; each select
\* answers {data, error}, or the whole Promise.all rejects
syncTripFromSupabase_Call(tripId) ==
    /\ sync.pc = "idle"
    /\ IF ~online \/ ~Truthy(tripId)
       THEN /\ ret' = Ret("syncTripFromSupabase", online, 0, FALSE, "void", <<>>)
            /\ UNCHANGED sync
       ELSE \/ \E failing \in {F \in SUBSET ChildTables : Cardinality(F) <= MaxFailing} :
                 /\ sync' = [IdleSync EXCEPT
                       !.pc = "fetched", !.tripId = tripId, !.overlap = sync.overlap,
                       !.res = [t \in ChildTables |->
                                  IF t \in failing
                                  THEN [error |-> TRUE, data |-> <<>>]
                                  ELSE [error |-> FALSE, data |-> SelectByTrip(t, tripId)]]]
                 /\ UNCHANGED ret
            \/ /\ ret' = Ret("syncTripFromSupabase", online, 5, TRUE, "void", <<>>)
               /\ UNCHANGED sync
    /\ UNCHANGED <<online, remote, db, nextKey, nextUuid, tx, reader, imp, exported>>

\* a call that no page is waiting for
syncTripFromSupabase_Fetch(tripId) ==
    /\ syncTripFromSupabase_Call(tripId)
    /\ UNCHANGED open

\* nothing is added back after the deletes
SyncRowsNone(t, res) == <<>>

\* the rows bulkAdd is handed for table t
SyncRows(t, res) == [i \in 1..Len(res[t].data) |-> SyncRow(t, res[t].data[i])]

\* db.transaction('rw', places, itinerary, packing, travelers, expenses, ...)
syncTripFromSupabase_TxBegin ==
    /\ sync.pc = "fetched"
    /\ CanRun(ChildTables)
    /\ \A t \in ChildTables : nextKey[t] + Len(sync.res[t].data) - 1 <= MaxKey
    /\ tx' = [owner |-> "sync", scope |-> TxScope]
    /\ sync' = [sync EXCEPT
          !.pc = "tx", !.step = 1,
          !.snap = Children(db, sync.tripId),
          !.post = [t \in ChildTables |->
                      BulkAdd({}, SyncRows(t, sync.res), nextKey[t])]]
    /\ UNCHANGED <<online, remote, db, nextKey, nextUuid, reader, ret, imp, exported, open>>

\* one statement of the transaction body: the five deletes, then the five
\* bulkAdds of the collections that were fetched non-empty
syncTripFromSupabase_TxStep ==
    /\ sync.pc = "tx"
    /\ LET i == sync.step
           t == TableOrder[IF i <= 5 THEN i ELSE i - 5]
           rows == SyncRows(t, sync.res)
       IN /\ IF i <= 5
             THEN /\ db' = [db EXCEPT ![t] = @ \ WhereTripId(@, sync.tripId)]
                  /\ UNCHANGED nextKey
             ELSE IF Len(rows) > 0
             THEN /\ db' = [db EXCEPT ![t] = BulkAdd(@, rows, nextKey[t])]
                  /\ nextKey' = [nextKey EXCEPT ![t] = @ + Len(rows)]
             ELSE UNCHANGED <<db, nextKey>>
          /\ sync' = IF i < 10 THEN [sync EXCEPT !.step = i + 1]
                     ELSE [sync EXCEPT !.pc = "commit"]
    /\ UNCHANGED <<online, remote, nextUuid, tx, reader, ret, imp, exported, open>>

\* the transaction commits and the call returns (void)
syncTripFromSupabase_Commit ==
    /\ sync.pc = "commit"
    /\ tx' = NoTx
    /\ sync' = [IdleSync EXCEPT !.overlap = sync.overlap]
    /\ ret' = [Ret("syncTripFromSupabase", TRUE, 5, FALSE, "void", <<>>)
                 EXCEPT !.fetchError = AnyFetchError(sync.res)]
    /\ UNCHANGED <<online, remote, db, nextKey, nextUuid, reader, imp, exported, open>>

\* the same call made a second time while the first is under way: its
\* early return and its five selects
syncTripFromSupabase_Overlap_Fetch(tripId) ==
    /\ sync.overlap.pc = "idle"
    /\ IF ~online \/ ~Truthy(tripId)
       THEN /\ ret' = Ret("syncTripFromSupabase", online, 0, FALSE, "void", <<>>)
            /\ UNCHANGED sync
       ELSE \/ \E failing \in {F \in SUBSET ChildTables : Cardinality(F) <= MaxFailing} :
                 /\ sync' = [sync EXCEPT !.overlap = [IdleOverlap EXCEPT
                       !.pc = "fetched", !.tripId = tripId,
                       !.res = [t \in ChildTables |->
                                  IF t \in failing
                                  THEN [error |-> TRUE, data |-> <<>>]
                                  ELSE [error |-> FALSE, data |-> SelectByTrip(t, tripId)]]]]
                 /\ UNCHANGED ret
            \/ /\ ret' = Ret("syncTripFromSupabase", online, 5, TRUE, "void", <<>>)
               /\ UNCHANGED sync
    /\ UNCHANGED <<online, remote, db, nextKey, nextUuid, tx, reader, imp, exported, open>>

\* its transaction, which starts when the child tables are free
syncTripFromSupabase_Overlap_TxBegin ==
    /\ sync.overlap.pc = "fetched"
    /\ CanRun(ChildTables)
    /\ \A t \in ChildTables : nextKey[t] + Len(sync.overlap.res[t].data) - 1 <= MaxKey
    /\ tx' = [owner |-> "overlap", scope |-> TxScope]
    /\ sync' = [sync EXCEPT
          !.overlap.pc = "tx", !.overlap.step = 1,
          !.overlap.post = [t \in ChildTables |->
                              BulkAdd({}, SyncRows(t, sync.overlap.res), nextKey[t])]]
    /\ UNCHANGED <<online, remote, db, nextKey, nextUuid, reader, ret, imp, exported, open>>

\* one statement of its transaction body
syncTripFromSupabase_Overlap_TxStep ==
    /\ sync.overlap.pc = "tx"
    /\ LET i == sync.overlap.step
           t == TableOrder[IF i <= 5 THEN i ELSE i - 5]
           rows == SyncRows(t, sync.overlap.res)
       IN /\ IF i <= 5
             THEN /\ db' = [db EXCEPT ![t] = @ \ WhereTripId(@, sync.overlap.tripId)]
                  /\ UNCHANGED nextKey
             ELSE IF Len(rows) > 0
             THEN /\ db' = [db EXCEPT ![t] = BulkAdd(@, rows, nextKey[t])]
                  /\ nextKey' = [nextKey EXCEPT ![t] = @ + Len(rows)]
             ELSE UNCHANGED <<db, nextKey>>
          /\ sync' = IF i < 10 THEN [sync EXCEPT !.overlap.step = i + 1]
                     ELSE [sync EXCEPT !.overlap.pc = "commit"]
    /\ UNCHANGED <<online, remote, nextUuid, tx, reader, ret, imp, exported, open>>

\* its transaction commits and it returns
syncTripFromSupabase_Overlap_Commit ==
    /\ sync.overlap.pc = "commit"
    /\ tx' = NoTx
    /\ sync' = [sync EXCEPT !.overlap.pc = "idle", !.overlap.step = 0]
    /\ ret' = [Ret("syncTripFromSupabase", TRUE, 5, FALSE, "void", <<>>)
                 EXCEPT !.fetchError = AnyFetchError(sync.overlap.res)]
    /\ UNCHANGED <<online, remote, db, nextKey, nextUuid, reader, imp, exported, open>>

syncTripFromSupabase ==
    \/ \E t \in db.trips : syncTripFromSupabase_Fetch(t.trip_id)
    \/ syncTripFromSupabase_TxBegin
    \/ syncTripFromSupabase_TxStep
    \/ syncTripFromSupabase_Commit

----------------------------------------------------------------------------
(* A reader of one trip's children (one read transaction over the child    *)
(* tables), issued at any moment and served when the tables are free.      *)

IdleReader == [pc |-> "idle", tripId |-> undefined, duringTx |-> FALSE,
               pre |-> NoChildren, post |-> NoChildren]

\* the read is issued; duringTx notes that the reconciling transaction of
\* the same trip is open at that moment, with the child sets before and
\* after it
ReadRequest ==
    /\ reader.pc = "idle"
    /\ \E t \in db.trips :
          LET concurrent == sync.pc \in {"tx", "commit"} /\ sync.tripId = t.trip_id
          IN reader' = [pc |-> "waiting", tripId |-> t.trip_id,
                        duringTx |-> concurrent,
                        pre |-> IF concurrent THEN sync.snap ELSE NoChildren,
                        post |-> IF concurrent THEN sync.post ELSE NoChildren]
    /\ UNCHANGED <<online, remote, db, nextKey, nextUuid, tx, sync, ret, imp, exported, open>>

\* what the read is served: the trip's children as they are in the tables
ReadRows == Children(db, reader.tripId)

\* the read is served once no read-write transaction holds the child tables
ReadDeliver ==
    /\ reader.pc = "waiting"
    /\ TablesFree(ChildTables)
    /\ reader' = IdleReader
    /\ UNCHANGED <<online, remote, db, nextKey, nextUuid, tx, sync, ret, imp, exported, open>>

----------------------------------------------------------------------------
(* Repository operations.  Every action is one whole call: the isOnline()  *)
(* sample, the remote call with its outcome, the local fallback and the    *)
(* returned value.                                                         *)

\* a remote call resolves without error, resolves with {error}, or rejects;
\* nothing succeeds while the browser is offline
Outcomes == IF online THEN {"ok", "error", "throw"} ELSE {"error", "throw"}

\* table.get(key)
Get(S, key) == {r \in S : IsNumber(key) /\ r.dexieid = key.n}

\* the update writes the key's text into trip_id as well
UpdateTitleRekey(S, key, title) ==
    {IF IsNumber(key) /\ r.dexieid = key.n
     THEN [r EXCEPT !.title = title, !.trip_id = String(key)] ELSE r : r \in S}

\* db.trips.update(key, {title, ...})
UpdateTitle(S, key, title) ==
    {IF IsNumber(key) /\ r.dexieid = key.n THEN [r EXCEPT !.title = title] ELSE r : r \in S}

\* db.packing.update(key, {completed, ...})
UpdateCompleted(S, key, completed) ==
    {IF IsNumber(key) /\ r.dexieid = key.n THEN [r EXCEPT !.completed = completed] ELSE r : r \in S}

\* table.delete(key)
Delete(S, key) == {r \in S : ~(IsNumber(key) /\ r.dexieid = key.n)}

\* the values a page passes as tripId: the trip_id of a trip it shows
TripIds == {t.trip_id : t \in db.trips} \cup {t.trip_id : t \in remote.trips}

\* the values a page passes as a trip's numeric handle
TripKeys == {Num(t.dexieid) : t \in db.trips}

UnchangedCalls == UNCHANGED <<online, tx, sync, reader, imp, exported, open>>

\* a list operation answers with the cache whatever the remote query returned
ListResultCacheFirst(op, tripId, o, remoteRows, localRows) ==
    [Ret(op, online, 1, FALSE, "rows", localRows) EXCEPT !.arg = tripId]

\* what a list operation returns, online, after its remote query: the mapped
\* remote rows when the query answered without error, else the local rows
ListResult(op, tripId, o, remoteRows, localRows) ==
    IF o = "ok"
    THEN [Ret(op, online, 1, FALSE, "rows", remoteRows) EXCEPT !.arg = tripId]
    ELSE [Ret(op, online, 1, FALSE, "rows", localRows)
            EXCEPT !.arg = tripId, !.fetchError = TRUE]

\* what a list operation returns offline: the local rows
ListOffline(op, tripId, localRows) ==
    [Ret(op, online, 0, FALSE, "rows", localRows) EXCEPT !.arg = tripId]

\* ---- trips ----

getTrip(tripId) ==
    /\ CanRun({"trips"})
    /\ LET found == {r \in remote.trips : r.trip_id = String(tripId)}
           cached == ToArray(Get(db.trips, tripId))
           fallback == Ret("getTrip", online, IF online THEN 1 ELSE 0, FALSE,
                           IF Len(cached) > 0 THEN "row" ELSE "null", cached)
           answer(r) == ret' = [r EXCEPT !.arg = tripId]
       IN IF online
          THEN \E o \in Outcomes :
                 answer(IF o = "ok" /\ found # {}
                        THEN Ret("getTrip", online, 1, FALSE, "row",
                                 SetToSeqBy(found, [r \in found |-> r.trip_id.n]))
                        ELSE fallback)
          ELSE answer(fallback)
    /\ UNCHANGED <<remote, db, nextKey, nextUuid>>
    /\ UnchangedCalls

getUserTrips ==
    /\ CanRun({"trips"})
    /\ LET local == Ret("getUserTrips", online, IF online THEN 1 ELSE 0, FALSE,
                        "rows", ToArray(db.trips))
       IN IF online
          THEN \E o \in Outcomes :
                 ret' = IF o = "ok"
                        THEN Ret("getUserTrips", online, 1, FALSE, "rows",
                                 SetToSeqBy(remote.trips, [r \in remote.trips |-> r.trip_id.n]))
                        ELSE local
          ELSE ret' = local
    /\ UNCHANGED <<remote, db, nextKey, nextUuid>>
    /\ UnchangedCalls

\* the local fallback of createTrip: add, then trip_id := String(key)
LocalTrip(title, key) ==
    [dexieid |-> key, trip_id |-> String(Num(key)), issync |-> SyncUnset,
     title |-> title, owner_id |-> undefined]

createTrip(title) ==
    /\ CanRun({"trips"})
    /\ LET addLocal ==
             /\ nextKey["trips"] <= MaxTrips
             /\ db' = [db EXCEPT !["trips"] = @ \cup {LocalTrip(title, nextKey["trips"])}]
             /\ nextKey' = [nextKey EXCEPT !["trips"] = @ + 1]
             /\ ret' = Ret("createTrip", online, IF online THEN 1 ELSE 0, FALSE, "row",
                           <<LocalTrip(title, nextKey["trips"])>>)
             /\ UNCHANGED <<remote, nextUuid>>
       IN IF ~online THEN addLocal
          ELSE \E o \in Outcomes :
                 CASE o = "ok" ->
                        \E owner \in {null, User(1)} :
                          LET data == [trip_id |-> Uuid(nextUuid), title |-> title,
                                       owner_id |-> owner]
                              row == [dexieid |-> nextKey["trips"], trip_id |-> data.trip_id,
                                      issync |-> SyncTrue, title |-> data.title,
                                      owner_id |-> data.owner_id]
                          IN /\ nextUuid <= MaxUuid
                             /\ nextKey["trips"] <= MaxTrips
                             /\ remote' = [remote EXCEPT !["trips"] = @ \cup {data}]
                             /\ nextUuid' = nextUuid + 1
                             /\ db' = [db EXCEPT !["trips"] = @ \cup {row}]
                             /\ nextKey' = [nextKey EXCEPT !["trips"] = @ + 1]
                             /\ ret' = Ret("createTrip", online, 1, FALSE, "row", <<row>>)
                   [] o = "error" ->
                        /\ ret' = Ret("createTrip", online, 1, FALSE, "null", <<>>)
                        /\ UNCHANGED <<remote, db, nextKey, nextUuid>>
                   [] o = "throw" -> addLocal
    /\ UnchangedCalls

updateTrip(tripId, title) ==
    /\ CanRun({"trips"})
    /\ LET F(r) == [r EXCEPT !.title = title]
           found == {r \in remote.trips : r.trip_id = String(tripId)}
           updateLocal(calls) ==
             /\ db' = [db EXCEPT !["trips"] = IF IsNumber(tripId) THEN UpdateTitle(@, tripId, title) ELSE @]
             /\ ret' = LET got == ToArray(Get(UpdateTitle(db.trips, tripId, title), tripId))
                       IN Ret("updateTrip", online, calls, FALSE,
                              IF Len(got) > 0 THEN "row" ELSE "null", got)
       IN IF ~online THEN updateLocal(0) /\ UNCHANGED remote
          ELSE \E o \in Outcomes :
                 CASE o = "ok" /\ found # {} ->
                        /\ remote' = [remote EXCEPT !["trips"] = {IF r \in found THEN F(r) ELSE r : r \in @}]
                        /\ IF IsNumber(tripId) THEN updateLocal(1)
                           ELSE /\ ret' = Ret("updateTrip", online, 1, FALSE, "row",
                                              SetToSeqBy({F(r) : r \in found},
                                                         [r \in {F(x) : x \in found} |-> r.trip_id.n]))
                                /\ UNCHANGED db
                   [] o = "throw" -> updateLocal(1) /\ UNCHANGED remote
                   [] OTHER ->
                        /\ ret' = Ret("updateTrip", online, 1, FALSE, "null", <<>>)
                        /\ UNCHANGED <<remote, db>>
    /\ UNCHANGED <<nextKey, nextUuid>>
    /\ UnchangedCalls

\* what a delete operation reports: its answer, the key it was given, the
\* local records that key named, and whether its remote delete failed
DeleteAnswer(op, key, aimed, calls, b) ==
    [Ret(op, online, calls, FALSE, IF b THEN "true" ELSE "false", <<>>)
       EXCEPT !.arg = key, !.before = ToArray(aimed), !.fetchError = calls > 0 /\ ~b]

deleteTrip(tripId) ==
    /\ CanRun({"trips"})
    /\ LET deleteLocal == db' = [db EXCEPT !["trips"] = Delete(@, tripId)]
           aimed == Get(db.trips, tripId) \cup WhereTripId(db.trips, tripId)
           answer(calls, b) == ret' = DeleteAnswer("deleteTrip", tripId, aimed, calls, b)
       IN IF ~online THEN deleteLocal /\ answer(0, TRUE) /\ UNCHANGED remote
          ELSE \E o \in Outcomes :
                 CASE o = "ok" ->
                        /\ remote' = [remote EXCEPT !["trips"] = {r \in @ : r.trip_id # String(tripId)}]
                        /\ deleteLocal /\ answer(1, TRUE)
                   [] o = "error" -> answer(1, FALSE) /\ UNCHANGED <<remote, db>>
                   [] o = "throw" -> deleteLocal /\ answer(1, FALSE) /\ UNCHANGED remote
    /\ UNCHANGED <<nextKey, nextUuid>>
    /\ UnchangedCalls

\* ---- packing ----

\* the rows a list operation returns from Supabase, mapped as the code maps them
RemotePacking(tripId) ==
    LET F(item) == [packing_id |-> item.packing_id, trip_id |-> item.trip_id,
                    issync |-> SyncTrue, title |-> item.title,
                    completed |-> item.completed, order |-> item.order]
        S == {r \in remote.packing : r.trip_id = String(tripId)}
        data == SetToSeqBy(S, [r \in S |-> r.order * nextUuid + r.packing_id.n])
    IN [i \in 1..Len(data) |-> F(data[i])]

\* db.packing.where('trip_id').equals(tripId).sortBy('order')
LocalPacking(tripId) ==
    LET S == WhereTripId(db.packing, tripId)
    IN SetToSeqBy(S, [r \in S |-> r.order * nextKey["packing"] + r.dexieid])

getPackingItems(tripId) ==
    /\ CanRun({"packing"})
    /\ LET local == IF ~Truthy(tripId) THEN <<>> ELSE LocalPacking(tripId)
       IN IF online
          THEN \E o \in Outcomes :
                 ret' = ListResult("getPackingItems", tripId, o, RemotePacking(tripId), local)
          ELSE ret' = ListOffline("getPackingItems", tripId, local)
    /\ UNCHANGED <<remote, db, nextKey, nextUuid>>
    /\ UnchangedCalls

LocalPackingItem(tripId, title, order, key) ==
    [dexieid |-> key, packing_id |-> undefined, trip_id |-> tripId, issync |-> SyncFalse,
     title |-> title, completed |-> FALSE, order |-> order]

addPackingItem(tripId, title, order) ==
    /\ CanRun({"packing"})
    /\ LET addLocal ==
             /\ nextKey["packing"] <= MaxKey
             /\ db' = [db EXCEPT !["packing"] =
                          @ \cup {LocalPackingItem(tripId, title, order, nextKey["packing"])}]
             /\ nextKey' = [nextKey EXCEPT !["packing"] = @ + 1]
             /\ ret' = Ret("addPackingItem", online, IF online THEN 1 ELSE 0, FALSE, "row",
                           <<LocalPackingItem(tripId, title, order, nextKey["packing"])>>)
             /\ UNCHANGED <<remote, nextUuid>>
       IN IF ~online THEN addLocal
          ELSE \E o \in Outcomes :
                 CASE o = "ok" ->
                        LET data == [packing_id |-> Uuid(nextUuid), trip_id |-> String(tripId),
                                     title |-> title, completed |-> FALSE, order |-> order]
                        IN /\ nextUuid <= MaxUuid
                           /\ remote' = [remote EXCEPT !["packing"] = @ \cup {data}]
                           /\ nextUuid' = nextUuid + 1
                           /\ ret' = Ret("addPackingItem", online, 1, FALSE, "row",
                                         <<[packing_id |-> data.packing_id, trip_id |-> tripId,
                                            issync |-> SyncTrue, title |-> data.title,
                                            completed |-> data.completed, order |-> data.order]>>)
                           /\ UNCHANGED <<db, nextKey>>
                   [] o = "error" ->
                        /\ ret' = Ret("addPackingItem", online, 1, FALSE, "null", <<>>)
                        /\ UNCHANGED <<remote, db, nextKey, nextUuid>>
                   [] o = "throw" -> addLocal
    /\ UnchangedCalls

updatePackingItem(itemId, completed) ==
    /\ CanRun({"packing"})
    /\ LET F(r) == [r EXCEPT !.completed = completed]
           item == Get(db.packing, itemId)
           updateLocal(calls) ==
             /\ db' = [db EXCEPT !["packing"] = UpdateCompleted(@, itemId, completed)]
             /\ ret' = LET got == ToArray(Get(UpdateCompleted(db.packing, itemId, completed), itemId))
                       IN Ret("updatePackingItem", online, calls, FALSE,
                              IF Len(got) > 0 THEN "row" ELSE "null", got)
             /\ UNCHANGED remote
           nothing(calls) ==
             /\ ret' = Ret("updatePackingItem", online, calls, FALSE, "null", <<>>)
             /\ UNCHANGED <<remote, db>>
           remoteUpdate(packingId) ==
             remote' = [remote EXCEPT !["packing"] =
                          {IF r.packing_id = packingId THEN F(r) ELSE r : r \in @}]
           matches(packingId) == {r \in remote.packing : r.packing_id = packingId}
       IN IF ~Truthy(itemId) THEN nothing(0)
          ELSE IF IsNumber(itemId)
          THEN IF ~online THEN updateLocal(0)
               ELSE IF item = {} \/ \A r \in item : ~Truthy(r.packing_id)
               THEN updateLocal(0)
               ELSE \E o \in Outcomes : \E r \in item :
                      CASE o = "ok" /\ matches(r.packing_id) # {} ->
                             /\ remoteUpdate(r.packing_id)
                             /\ db' = [db EXCEPT !["packing"] = UpdateCompleted(@, itemId, completed)]
                             /\ ret' = Ret("updatePackingItem", online, 1, FALSE, "row",
                                           ToArray(Get(UpdateCompleted(db.packing, itemId, completed), itemId)))
                        [] o = "throw" -> updateLocal(1)
                        [] OTHER -> nothing(1)
          ELSE \E o \in Outcomes :
                 IF o = "ok" /\ matches(itemId) # {}
                 THEN /\ remoteUpdate(itemId)
                      /\ ret' = Ret("updatePackingItem", online, 1, FALSE, "row",
                                    SetToSeqBy({F(r) : r \in matches(itemId)},
                                               [r \in {F(x) : x \in matches(itemId)} |-> r.packing_id.n]))
                      /\ UNCHANGED db
                 ELSE nothing(1)
    /\ UNCHANGED <<nextKey, nextUuid>>
    /\ UnchangedCalls

deletePackingItem(itemId) ==
    /\ CanRun({"packing"})
    /\ LET deleteLocal == db' = [db EXCEPT !["packing"] = Delete(@, itemId)]
           item == Get(db.packing, itemId)
           aimed == item \cup {r \in db.packing : r.packing_id = itemId}
           answer(calls, b) == ret' = DeleteAnswer("deletePackingItem", itemId, aimed, calls, b)
           packingId == IF IsNumber(itemId)
                        THEN IF item # {} /\ \E r \in item : Truthy(r.packing_id)
                             THEN (CHOOSE r \in item : TRUE).packing_id ELSE null
                        ELSE itemId
       IN IF ~Truthy(itemId) THEN answer(0, FALSE) /\ UNCHANGED <<remote, db>>
          ELSE IF ~online THEN deleteLocal /\ answer(0, TRUE) /\ UNCHANGED remote
          ELSE IF ~Truthy(packingId) THEN deleteLocal /\ answer(0, TRUE) /\ UNCHANGED remote
          ELSE \E o \in Outcomes :
                 CASE o = "ok" ->
                        /\ remote' = [remote EXCEPT !["packing"] = {r \in @ : r.packing_id # packingId}]
                        /\ deleteLocal /\ answer(1, TRUE)
                   [] o = "error" -> answer(1, FALSE) /\ UNCHANGED <<remote, db>>
                   [] o = "throw" -> deleteLocal /\ answer(1, FALSE) /\ UNCHANGED remote
    /\ UNCHANGED <<nextKey, nextUuid>>
    /\ UnchangedCalls

\* ---- the delete operations that address the remote row by String(key) ----
\* (deleteTraveler, deleteExpense, deleteItineraryItem are the same code)

DeleteByKey(op, t, key) ==
    /\ CanRun({t})
    /\ LET deleteLocal == db' = [db EXCEPT ![t] = Delete(@, key)]
           aimed == Get(db[t], key) \cup {r \in db[t] : RemoteId(t, r) = key}
           answer(calls, b) == ret' = DeleteAnswer(op, key, aimed, calls, b)
       IN IF ~online THEN deleteLocal /\ answer(0, TRUE) /\ UNCHANGED remote
          ELSE \E o \in Outcomes :
                 CASE o = "ok" ->
                        /\ remote' = [remote EXCEPT ![t] = {r \in @ : RemoteId(t, r) # String(key)}]
                        /\ deleteLocal /\ answer(1, TRUE)
                   [] o = "error" -> answer(1, FALSE) /\ UNCHANGED <<remote, db>>
                   [] o = "throw" -> deleteLocal /\ answer(1, FALSE) /\ UNCHANGED remote
    /\ UNCHANGED <<nextKey, nextUuid>>
    /\ UnchangedCalls

\* ---- travelers ----

RemoteTravelers(tripId) ==
    LET F(item) == [traveler_id |-> item.traveler_id, trip_id |-> item.trip_id,
                    issync |-> SyncTrue, name |-> item.name]
        data == SelectByTrip("travelers", tripId)
    IN [i \in 1..Len(data) |-> F(data[i])]

getTravelers(tripId) ==
    /\ CanRun({"travelers"})
    /\ LET local == IF ~Truthy(tripId) THEN <<>>
                    ELSE ToArray(WhereTripId(db.travelers, tripId))
       IN IF online
          THEN \E o \in Outcomes :
                 ret' = ListResult("getTravelers", tripId, o, RemoteTravelers(tripId), local)
          ELSE ret' = ListOffline("getTravelers", tripId, local)
    /\ UNCHANGED <<remote, db, nextKey, nextUuid>>
    /\ UnchangedCalls

LocalTraveler(tripId, name, key) ==
    [dexieid |-> key, traveler_id |-> undefined, trip_id |-> tripId,
     issync |-> SyncFalse, name |-> name]

addTraveler(tripId, name) ==
    /\ CanRun({"travelers"})
    /\ LET addLocal ==
             /\ nextKey["travelers"] <= MaxKey
             /\ db' = [db EXCEPT !["travelers"] =
                          @ \cup {LocalTraveler(tripId, name, nextKey["travelers"])}]
             /\ nextKey' = [nextKey EXCEPT !["travelers"] = @ + 1]
             /\ ret' = Ret("addTraveler", online, IF online THEN 1 ELSE 0, FALSE, "row",
                           <<LocalTraveler(tripId, name, nextKey["travelers"])>>)
             /\ UNCHANGED <<remote, nextUuid>>
       IN IF ~online THEN addLocal
          ELSE \E o \in Outcomes :
                 CASE o = "ok" ->
                        LET data == [traveler_id |-> Uuid(nextUuid), trip_id |-> String(tripId),
                                     name |-> name]
                        IN /\ nextUuid <= MaxUuid
                           /\ remote' = [remote EXCEPT !["travelers"] = @ \cup {data}]
                           /\ nextUuid' = nextUuid + 1
                           /\ ret' = Ret("addTraveler", online, 1, FALSE, "row",
                                         <<[traveler_id |-> data.traveler_id, trip_id |-> tripId,
                                            issync |-> SyncTrue, name |-> data.name]>>)
                           /\ UNCHANGED <<db, nextKey>>
                   [] o = "error" ->
                        /\ ret' = Ret("addTraveler", online, 1, FALSE, "null", <<>>)
                        /\ UNCHANGED <<remote, db, nextKey, nextUuid>>
                   [] o = "throw" -> addLocal
    /\ UnchangedCalls

deleteTraveler(travelerId) == DeleteByKey("deleteTraveler", "travelers", travelerId)

\* ---- expenses ----

RemoteExpenses(tripId) ==
    LET F(item) == [expense_id |-> item.expense_id, trip_id |-> item.trip_id,
                    issync |-> SyncTrue, title |-> item.title, amount |-> item.amount,
                    payer_id |-> Coalesce(item.payer_id, undefined),
                    charged_to |-> IF item.charged_to.kind # "none"
                                   THEN JSONParse(item.charged_to) ELSE NoList]
        data == SelectByTrip("expenses", tripId)
    IN [i \in 1..Len(data) |-> F(data[i])]

getExpenses(tripId) ==
    /\ CanRun({"expenses"})
    /\ LET local == IF ~Truthy(tripId) THEN <<>>
                    ELSE ToArray(WhereTripId(db.expenses, tripId))
       IN IF online
          THEN IF ~Truthy(tripId)
               THEN ret' = [Ret("getExpenses", online, 0, FALSE, "rows", <<>>)
                              EXCEPT !.arg = tripId]
               ELSE \E o \in Outcomes :
                      ret' = ListResult("getExpenses", tripId, o, RemoteExpenses(tripId), local)
          ELSE ret' = ListOffline("getExpenses", tripId, local)
    /\ UNCHANGED <<remote, db, nextKey, nextUuid>>
    /\ UnchangedCalls

\* the handle the expenses page gives a traveler: String(__dexieid ?? traveler_id)
TravelerHandles(tripId) ==
    {Str(t.dexieid) : t \in WhereTripId(db.travelers, tripId)}
      \cup {t.traveler_id : t \in {r \in remote.travelers : r.trip_id = String(tripId)}}

LocalExpense(tripId, title, payer, charged, key) ==
    [dexieid |-> key, expense_id |-> undefined, trip_id |-> tripId, issync |-> SyncFalse,
     title |-> title, amount |-> 1, payer_id |-> payer, charged_to |-> List(charged)]

addExpense(tripId, title, payer, charged) ==
    /\ CanRun({"expenses"})
    /\ LET addLocal ==
             /\ nextKey["expenses"] <= MaxKey
             /\ db' = [db EXCEPT !["expenses"] =
                          @ \cup {LocalExpense(tripId, title, payer, charged, nextKey["expenses"])}]
             /\ nextKey' = [nextKey EXCEPT !["expenses"] = @ + 1]
             /\ ret' = Ret("addExpense", online, IF online THEN 1 ELSE 0, FALSE, "row",
                           <<LocalExpense(tripId, title, payer, charged, nextKey["expenses"])>>)
             /\ UNCHANGED <<remote, nextUuid>>
       IN IF ~online THEN addLocal
          ELSE \E o \in Outcomes :
                 CASE o = "ok" ->
                        LET data == [expense_id |-> Uuid(nextUuid), trip_id |-> String(tripId),
                                     title |-> title, amount |-> 1,
                                     payer_id |-> String(payer),
                                     charged_to |-> JSONStringify(List(charged))]
                        IN /\ nextUuid <= MaxUuid
                           /\ remote' = [remote EXCEPT !["expenses"] = @ \cup {data}]
                           /\ nextUuid' = nextUuid + 1
                           /\ ret' = Ret("addExpense", online, 1, FALSE, "row",
                                         <<[expense_id |-> data.expense_id, trip_id |-> tripId,
                                            issync |-> SyncTrue, title |-> data.title,
                                            amount |-> data.amount,
                                            payer_id |-> IF Truthy(data.payer_id)
                                                         THEN Number(data.payer_id) ELSE undefined,
                                            charged_to |-> JSONParse(data.charged_to)]>>)
                           /\ UNCHANGED <<db, nextKey>>
                   [] o = "error" ->
                        /\ ret' = Ret("addExpense", online, 1, FALSE, "null", <<>>)
                        /\ UNCHANGED <<remote, db, nextKey, nextUuid>>
                   [] o = "throw" -> addLocal
    /\ UnchangedCalls

deleteExpense(expenseId) == DeleteByKey("deleteExpense", "expenses", expenseId)

\* ---- itinerary ----

RemoteItinerary(tripId) ==
    LET F(item) == [itinerary_id |-> item.itinerary_id, trip_id |-> item.trip_id,
                    day_index |-> item.day_index, title |-> item.title,
                    place_id |-> item.place_id, order |-> item.order, issync |-> SyncTrue]
        S == {r \in remote.itinerary : r.trip_id = String(tripId)}
        data == SetToSeqBy(S, [r \in S |-> (r.day_index * (MaxKey + 2) + r.order) * nextUuid
                                             + r.itinerary_id.n])
    IN [i \in 1..Len(data) |-> F(data[i])]

\* db.itinerary.where('trip_id').equals(tripId).sortBy('day_index')
LocalItinerary(tripId) ==
    LET S == WhereTripId(db.itinerary, tripId)
    IN SetToSeqBy(S, [r \in S |-> r.day_index * nextKey["itinerary"] + r.dexieid])

getItineraryItems(tripId) ==
    /\ CanRun({"itinerary"})
    /\ LET local == IF ~Truthy(tripId) THEN <<>> ELSE LocalItinerary(tripId)
       IN IF online
          THEN \E o \in Outcomes :
                 ret' = ListResult("getItineraryItems", tripId, o, RemoteItinerary(tripId), local)
          ELSE ret' = ListOffline("getItineraryItems", tripId, local)
    /\ UNCHANGED <<remote, db, nextKey, nextUuid>>
    /\ UnchangedCalls

\* the local fallback of addItineraryItem sets no issync
LocalItineraryItem(tripId, title, day, order, key) ==
    [dexieid |-> key, itinerary_id |-> undefined, trip_id |-> Coalesce(tripId, undefined),
     issync |-> SyncUnset, day_index |-> day, title |-> title,
     place_id |-> undefined, order |-> order]

addItineraryItem(tripId, title, day, order) ==
    /\ CanRun({"itinerary"})
    /\ LET addLocal ==
             /\ nextKey["itinerary"] <= MaxKey
             /\ db' = [db EXCEPT !["itinerary"] =
                          @ \cup {LocalItineraryItem(tripId, title, day, order, nextKey["itinerary"])}]
             /\ nextKey' = [nextKey EXCEPT !["itinerary"] = @ + 1]
             /\ ret' = Ret("addItineraryItem", online, IF online THEN 1 ELSE 0, FALSE, "row",
                           <<LocalItineraryItem(tripId, title, day, order, nextKey["itinerary"])>>)
             /\ UNCHANGED <<remote, nextUuid>>
       IN IF ~online THEN addLocal
          ELSE \E o \in Outcomes :
                 CASE o = "ok" ->
                        LET data == [itinerary_id |-> Uuid(nextUuid), trip_id |-> String(tripId),
                                     day_index |-> day, title |-> title,
                                     place_id |-> Column(undefined), order |-> order]
                        IN /\ nextUuid <= MaxUuid
                           /\ remote' = [remote EXCEPT !["itinerary"] = @ \cup {data}]
                           /\ nextUuid' = nextUuid + 1
                           /\ ret' = Ret("addItineraryItem", online, 1, FALSE, "row",
                                         <<[dexieid |-> 0, itinerary_id |-> data.itinerary_id,
                                            trip_id |-> data.trip_id, day_index |-> data.day_index,
                                            title |-> data.title, place_id |-> data.place_id,
                                            order |-> data.order, issync |-> SyncTrue]>>)
                           /\ UNCHANGED <<db, nextKey>>
                   [] o = "error" ->
                        /\ ret' = Ret("addItineraryItem", online, 1, FALSE, "null", <<>>)
                        /\ UNCHANGED <<remote, db, nextKey, nextUuid>>
                   [] o = "throw" -> addLocal
    /\ UnchangedCalls

deleteItineraryItem(itemId) == DeleteByKey("deleteItineraryItem", "itinerary", itemId)

----------------------------------------------------------------------------
(* Export documents.  A document is the JSON text of an array of trip       *)
(* graphs {trip, places, itinerary, packing, travelers, expenses}; a row    *)
(* without __dexieid carries dexieid 0.  A field whose value is undefined   *)
(* is dropped by JSON.stringify and reads as undefined again after          *)
(* JSON.parse.  graph is what the document was made from: the exported      *)
(* rows with their primary keys.                                            *)

NoDoc == [kind |-> "none", entries |-> <<>>, graph |-> <<>>]

stripDexieId(item) == [item EXCEPT !.dexieid = 0]

StripAll(rows) == [i \in 1..Len(rows) |-> stripDexieId(rows[i])]

\* queryByTripId: the index first, then the scan over String(item.trip_id)
queryByTripId(S, searchKeys) ==
    LET indexed == {r \in S : r.trip_id \in searchKeys}
    IN IF indexed # {} THEN ToArray(indexed)
       ELSE ToArray({r \in S : String(r.trip_id) \in searchKeys \/ r.trip_id \in searchKeys})

\* one element of tripsExport, before the primary keys are stripped
ExportGraph(trip) ==
    LET tripKey == Coalesce(trip.trip_id, Str(trip.dexieid))
        legacyKey == Str(trip.dexieid)
        uniqueKeys == {k \in {tripKey, legacyKey} : Truthy(k)}
    IN [trip |-> <<trip>>,
        places |-> queryByTripId(db.places, uniqueKeys),
        itinerary |-> queryByTripId(db.itinerary, uniqueKeys),
        packing |-> queryByTripId(db.packing, uniqueKeys),
        travelers |-> queryByTripId(db.travelers, uniqueKeys),
        expenses |-> queryByTripId(db.expenses, uniqueKeys)]

StripGraph(g) ==
    [trip |-> StripAll(g.trip), places |-> StripAll(g.places),
     itinerary |-> StripAll(g.itinerary), packing |-> StripAll(g.packing),
     travelers |-> StripAll(g.travelers), expenses |-> StripAll(g.expenses)]

\* the trips exportTripsData finds for tripIds: bulkGet of the ids that
\* read as numbers, then the trips whose trip_id is one of the other ids
ExportedTrips(tripIds) ==
    LET numericIds == {Number(id).n : id \in {x \in tripIds : Number(x) # NaN}}
        stringIds == {String(id) : id \in {x \in tripIds : Truthy(x) /\ Number(x) = NaN}}
    IN ToArray({t \in db.trips : t.dexieid \in numericIds})
         \o ToArray({t \in db.trips : t.trip_id \in stringIds})

\* the trips page selects trips by trip_id ?? __dexieid
exportTripsData(tripIds) ==
    /\ CanRun(Tables)
    /\ LET tripsData == ExportedTrips(tripIds)
           graphs == [i \in 1..Len(tripsData) |-> ExportGraph(tripsData[i])]
       IN /\ exported' = [kind |-> "array",
                          entries |-> [i \in 1..Len(graphs) |-> StripGraph(graphs[i])],
                          graph |-> graphs]
          /\ ret' = Ret("exportTripsData", online, 0, FALSE, "document", <<>>)
    /\ UNCHANGED <<online, remote, db, nextKey, nextUuid, tx, sync, reader, imp, open>>

----------------------------------------------------------------------------
(* importTripsData: the local insert of every trip graph of the document,  *)
(* the push of the graphs to Supabase (importTripsToSupabase) and the       *)
(* promotion of the trips that were pushed.                                 *)

Untitled == [t |-> "text", n |-> 0]

NoKeys == [t \in Tables |-> {}]

IdleImp == [pc |-> "idle", doc |-> NoDoc, user |-> undefined, idx |-> 0,
            before |-> EmptyStore, local_trip_id |-> <<>>, keys |-> <<>>,
            results |-> <<>>, step |-> 0]

\* the index of the last array element that set a map entry
LastIndex(I) == CHOOSE i \in I : \A j \in I : j <= i

\* placeIdMap.get(k) after the places loop: String(old place_id) -> String(new key)
placeIdMap(places, nk, k) ==
    LET I == {i \in 1..Len(places) : places[i].place_id # undefined
                                     /\ String(places[i].place_id) = k}
    IN IF I = {} THEN undefined ELSE Str(nk + LastIndex(I) - 1)

\* every old key is taken for that of the first traveler
travelerIdMapFirst(travelers, nk, k) == Num(nk)

\* travelerIdMap.get(k) after the travelers loop: String(old traveler_id) -> new key
travelerIdMap(travelers, nk, k) ==
    LET I == {i \in 1..Len(travelers) : travelers[i].traveler_id # undefined
                                        /\ String(travelers[i].traveler_id) = k}
    IN IF I = {} THEN undefined ELSE Num(nk + LastIndex(I) - 1)

ImportedTrip(trip, key, defaultUserId) ==
    [trip EXCEPT !.dexieid = key, !.trip_id = Str(key),
                 !.owner_id = Coalesce(@, Coalesce(defaultUserId, null)),
                 !.title = Coalesce(@, Untitled)]

ImportedPlaces(places, nk, newTripId) ==
    [i \in 1..Len(places) |->
       [places[i] EXCEPT !.dexieid = nk + i - 1, !.place_id = Str(nk + i - 1),
                         !.trip_id = newTripId, !.title = Coalesce(@, Untitled)]]

ImportedTravelers(travelers, nk, newTripId) ==
    [i \in 1..Len(travelers) |->
       [travelers[i] EXCEPT !.dexieid = nk + i - 1, !.traveler_id = Str(nk + i - 1),
                            !.trip_id = newTripId, !.name = Coalesce(@, Untitled)]]

ImportedItinerary(itinerary, places, nk, newTripId) ==
    [i \in 1..Len(itinerary) |->
       LET oldPlaceId == itinerary[i].place_id
           mapped == placeIdMap(places, nk, String(oldPlaceId))
       IN [itinerary[i] EXCEPT !.itinerary_id = undefined, !.trip_id = newTripId,
                               !.title = Coalesce(@, Untitled),
                               !.place_id = IF oldPlaceId # undefined /\ mapped # undefined
                                            THEN mapped ELSE @]]

\* every item is numbered by its place in the array
ImportedPackingReindexed(packing, newTripId) ==
    [i \in 1..Len(packing) |->
       [packing[i] EXCEPT !.packing_id = undefined, !.trip_id = newTripId,
                          !.title = Coalesce(@, Untitled), !.order = i]]

ImportedPacking(packing, newTripId) ==
    [i \in 1..Len(packing) |->
       [packing[i] EXCEPT !.packing_id = undefined, !.trip_id = newTripId,
                          !.title = Coalesce(@, Untitled)]]

ImportedExpenses(expenses, travelers, nk, newTripId) ==
    [i \in 1..Len(expenses) |->
       LET oldPayerId == expenses[i].payer_id
           mapped == travelerIdMap(travelers, nk, String(oldPayerId))
           old == expenses[i].charged_to.items
           Defined(id) == id # undefined
           charged == SelectSeq([j \in 1..Len(old) |->
                                   travelerIdMap(travelers, nk, String(old[j]))], Defined)
       IN [expenses[i] EXCEPT !.expense_id = undefined, !.trip_id = newTripId,
                              !.title = Coalesce(@, Untitled),
                              !.payer_id = IF oldPayerId # undefined /\ mapped # undefined
                                           THEN mapped ELSE @,
                              !.charged_to = IF IsArray(@) THEN List(charged) ELSE @]]

ImportFailure == Ret("importTripsData", online, 0, FALSE, "failure", <<>>)

\* only an array is taken for trip data
TripsDataArrayOnly(doc) == IF doc.kind = "array" THEN doc.entries ELSE <<>>

\* tripsData after JSON.parse and the wrapping: the elements of a document
\* that is an array; a document that is a single object (held in entries)
\* becomes the array of that one object
TripsData(doc) ==
    CASE doc.kind = "array" -> doc.entries
      [] doc.kind = "object" -> <<doc.entries[1]>>
      [] OTHER -> <<>>

\* JSON.parse, the wrapping of a single object, the empty-array check and
\* the lookup of the local user identity
importTripsData_Parse(doc, identity) ==
    /\ imp.pc = "idle"
    /\ LET called == [IdleImp EXCEPT !.doc = doc, !.user = identity, !.before = db]
       IN IF doc.kind \notin {"array", "object"} \/ Len(TripsData(doc)) = 0
          THEN /\ imp' = [called EXCEPT !.pc = "done"]
               /\ ret' = ImportFailure
          ELSE /\ imp' = [called EXCEPT !.pc = "insert", !.idx = 1]
               /\ UNCHANGED ret
    /\ UNCHANGED <<online, remote, db, nextKey, nextUuid, tx, sync, reader, exported, open>>

\* one pass of the loop over tripsData: the trip, its places and travelers
\* one by one, then itinerary, packing and expenses in bulk
importTripsData_Entry ==
    /\ imp.pc = "insert"
    /\ CanRun(Tables)
    /\ LET tripData == TripsData(imp.doc)[imp.idx]
           key == nextKey["trips"]
           newTripId == Str(key)
           rows == [t \in Tables |->
                      CASE t = "trips" -> <<ImportedTrip(tripData.trip[1], key, imp.user)>>
                        [] t = "places" ->
                             ImportedPlaces(tripData.places, nextKey["places"], newTripId)
                        [] t = "travelers" ->
                             ImportedTravelers(tripData.travelers, nextKey["travelers"], newTripId)
                        [] t = "itinerary" ->
                             ImportedItinerary(tripData.itinerary, tripData.places,
                                               nextKey["places"], newTripId)
                        [] t = "packing" -> ImportedPacking(tripData.packing, newTripId)
                        [] t = "expenses" ->
                             ImportedExpenses(tripData.expenses, tripData.travelers,
                                              nextKey["travelers"], newTripId)]
       IN IF Len(tripData.trip) = 0
          THEN /\ imp' = [imp EXCEPT !.pc = "done"]
               /\ ret' = ImportFailure
               /\ UNCHANGED <<db, nextKey>>
          ELSE /\ db' = [t \in Tables |-> BulkAdd(db[t], rows[t], nextKey[t])]
               /\ nextKey' = [t \in Tables |-> nextKey[t] + Len(rows[t])]
               /\ imp' = [imp EXCEPT
                     !.local_trip_id = Append(@, newTripId),
                     !.keys = Append(@, [t \in Tables |->
                                           nextKey[t]..(nextKey[t] + Len(rows[t]) - 1)]),
                     !.idx = IF imp.idx < Len(TripsData(imp.doc)) THEN @ + 1 ELSE 1,
                     !.pc = IF imp.idx < Len(TripsData(imp.doc)) THEN "insert" ELSE "push"]
               /\ UNCHANGED ret
    /\ UNCHANGED <<online, remote, nextUuid, tx, sync, reader, exported, open>>

\* importTripsToSupabase walks the collections of a trip graph in this order
PushOrder == <<"places", "travelers", "itinerary", "packing", "expenses">>

PushIndex(t) == CHOOSE i \in 1..Len(PushOrder) : PushOrder[i] = t

\* isOnline() at the head of importTripsToSupabase: offline, nothing is
\* pushed and the result list is empty
importTripsToSupabase_Begin ==
    /\ imp.pc = "push"
    /\ imp' = [imp EXCEPT !.pc = IF online THEN "pushing" ELSE "promote",
                          !.idx = 1, !.step = 1]
    /\ UNCHANGED <<online, remote, db, nextKey, nextUuid, tx, sync, reader, ret, exported, open>>

\* the rows importTripsToSupabase inserts for one trip graph.  inserted is
\* the set of collections whose inserts resolved without error; the server
\* issues its keys from base on, in the order of the inserts.
PushedRows(tripData, supaTripId, inserted, base) ==
    LET n(t) == IF t \in inserted THEN Len(tripData[t]) ELSE 0
        bPlaces == base
        bTravelers == bPlaces + n("places")
        bItinerary == bTravelers + n("travelers")
        bPacking == bItinerary + n("itinerary")
        bExpenses == bPacking + n("packing")
        placeIdMapGet(k) ==
            LET I == {i \in 1..n("places") : tripData.places[i].place_id # undefined
                                             /\ String(tripData.places[i].place_id) = k}
            IN IF I = {} THEN undefined ELSE Uuid(bPlaces + LastIndex(I) - 1)
        travelerIdMapGet(k) ==
            LET I == {i \in 1..n("travelers") : tripData.travelers[i].traveler_id # undefined
                                                /\ String(tripData.travelers[i].traveler_id) = k}
            IN IF I = {} THEN undefined ELSE Uuid(bTravelers + LastIndex(I) - 1)
        mappedCharged(item) ==
            LET old == item.charged_to.items
                IsTruthy(id) == Truthy(id)
            IN SelectSeq([j \in 1..Len(old) |-> travelerIdMapGet(String(old[j]))], IsTruthy)
    IN [places |-> {[place_id |-> Uuid(bPlaces + i - 1), trip_id |-> supaTripId,
                     title |-> Column(tripData.places[i].title)] : i \in 1..n("places")},
        travelers |-> {[traveler_id |-> Uuid(bTravelers + i - 1), trip_id |-> supaTripId,
                        name |-> Column(tripData.travelers[i].name)] : i \in 1..n("travelers")},
        itinerary |-> {[itinerary_id |-> Uuid(bItinerary + i - 1), trip_id |-> supaTripId,
                        day_index |-> tripData.itinerary[i].day_index,
                        title |-> Column(tripData.itinerary[i].title),
                        place_id |-> Column(IF tripData.itinerary[i].place_id # undefined
                                            THEN placeIdMapGet(String(tripData.itinerary[i].place_id))
                                            ELSE undefined),
                        order |-> tripData.itinerary[i].order] : i \in 1..n("itinerary")},
        packing |-> {[packing_id |-> Uuid(bPacking + i - 1), trip_id |-> supaTripId,
                      title |-> Column(tripData.packing[i].title),
                      completed |-> tripData.packing[i].completed,
                      order |-> tripData.packing[i].order] : i \in 1..n("packing")},
        expenses |-> {[expense_id |-> Uuid(bExpenses + i - 1), trip_id |-> supaTripId,
                       title |-> Column(tripData.expenses[i].title),
                       amount |-> tripData.expenses[i].amount,
                       payer_id |-> Column(IF tripData.expenses[i].payer_id # undefined
                                           THEN travelerIdMapGet(String(tripData.expenses[i].payer_id))
                                           ELSE undefined),
                       charged_to |-> IF IsArray(tripData.expenses[i].charged_to)
                                      THEN JSONStringify(List(mappedCharged(tripData.expenses[i])))
                                      ELSE NoList] : i \in 1..n("expenses")},
        issued |-> bExpenses + n("expenses") - base]

\* one pass of the loop of importTripsToSupabase: the insert of the trip
\* and, when it succeeded, of the related collections.  An insert that
\* answers {error} is logged and the loop goes on; an insert that rejects
\* ends the loop in the catch block and the results gathered so far are
\* returned.  failing are the collections whose inserts answer {error},
\* rejectAt the collection whose insert rejects (0: none); at most
\* MaxFailing collections fail in one pass.
importTripsToSupabase_Trip ==
    /\ imp.pc = "pushing"
    /\ LET tripData == TripsData(imp.doc)[imp.idx]
           goOn == [imp EXCEPT !.idx = IF imp.idx < Len(TripsData(imp.doc)) THEN @ + 1 ELSE 1,
                               !.pc = IF imp.idx < Len(TripsData(imp.doc))
                                      THEN "pushing" ELSE "promote"]
           stop == [imp EXCEPT !.idx = 1, !.pc = "promote"]
       IN \E o \in Outcomes :
            CASE o = "ok" ->
                   \E failing \in {F \in SUBSET ChildTables : Cardinality(F) <= MaxFailing} :
                   \E rejectAt \in {i \in 0..Len(PushOrder) :
                                      i # 0 => Cardinality(failing) < MaxFailing} :
                     LET supaTripId == Uuid(nextUuid)
                         inserted == {t \in ChildTables :
                                        /\ t \notin failing
                                        /\ (rejectAt = 0 \/ PushIndex(t) < rejectAt)}
                         pushed == PushedRows(tripData, supaTripId, inserted, nextUuid + 1)
                         result == [localTripId |-> imp.local_trip_id[imp.idx],
                                    supaTripId |-> supaTripId]
                     IN /\ remote' = [t \in Tables |->
                                        IF t = "trips"
                                        THEN remote[t] \cup
                                               {[trip_id |-> supaTripId,
                                                 title |-> Column(tripData.trip[1].title),
                                                 owner_id |-> null]}
                                        ELSE remote[t] \cup pushed[t]]
                        /\ nextUuid' = nextUuid + 1 + pushed.issued
                        /\ imp' = [IF rejectAt = 0 THEN goOn ELSE stop
                                     EXCEPT !.results = Append(@, result)]
              [] o = "error" -> imp' = goOn /\ UNCHANGED <<remote, nextUuid>>
              [] o = "throw" -> imp' = stop /\ UNCHANGED <<remote, nextUuid>>
    /\ UNCHANGED <<online, db, nextKey, tx, sync, reader, ret, exported, open>>

\* the promotion skips the dependent records: only the trip is rewritten
PromoteTablesTripOnly == <<"trips">>

\* the tables importTripsData rewrites for every pushed trip, in this order
PromoteTables == <<"trips", "places", "itinerary", "packing", "travelers", "expenses">>

\* table.where('trip_id').equals(localTripId).modify({trip_id: supaTripId, ...})
Promote(t, S, result) ==
    {IF r.trip_id = result.localTripId
     THEN IF t = "trips"
          THEN [r EXCEPT !.trip_id = result.supaTripId, !.issync = SyncTrue]
          ELSE [r EXCEPT !.trip_id = result.supaTripId]
     ELSE r : r \in S}

\* one modify call of the loop over syncResults; after the last one
\* importTripsData returns {success: true}
importTripsData_Promote ==
    /\ imp.pc = "promote"
    /\ IF imp.idx > Len(imp.results)
       THEN /\ imp' = [imp EXCEPT !.pc = "done"]
            /\ ret' = Ret("importTripsData", online, 0, FALSE, "success", <<>>)
            /\ UNCHANGED db
       ELSE LET t == PromoteTables[imp.step]
            IN /\ CanRun({t})
               /\ db' = [db EXCEPT ![t] = Promote(t, @, imp.results[imp.idx])]
               /\ imp' = IF imp.step < Len(PromoteTables)
                         THEN [imp EXCEPT !.step = @ + 1]
                         ELSE [imp EXCEPT !.step = 1, !.idx = @ + 1]
               /\ UNCHANGED ret
    /\ UNCHANGED <<online, remote, nextKey, nextUuid, tx, sync, reader, exported, open>>

importTripsData ==
    \/ importTripsData_Entry
    \/ importTripsToSupabase_Begin
    \/ importTripsToSupabase_Trip
    \/ importTripsData_Promote

----------------------------------------------------------------------------
(* ensure(): the trip page opens the trip named in the URL.  refreshed     *)
(* notes that the trip's record was read from Supabase in this request,    *)
(* checked that the caller's identity was compared with a trip's owner.    *)

IdleOpen == [pc |-> "idle", tripIdParam |-> undefined, currentUserId |-> null,
             trip |-> <<>>, refreshed |-> FALSE, checked |-> FALSE,
             accessDenied |-> FALSE, raised |-> FALSE]

\* parseInt(tripIdParam, 10): the leading decimal digits of the text, which
\* a uuid may or may not begin with
ParseInt(v) ==
    IF v.t = "uuid" THEN {NaN} \cup {Num(k) : k \in 1..MaxTrips} ELSE {Number(v)}

\* the identity and the two lookups in the local trips table
ensure_Lookup(tripIdParam, identity) ==
    /\ open.pc \in {"idle", "done"}
    /\ CanRun({"trips"})
    /\ \E numId \in ParseInt(tripIdParam) :
         LET byTripId == ToArray(WhereTripId(db.trips, tripIdParam))
             byKey == IF numId = NaN THEN <<>> ELSE ToArray(Get(db.trips, numId))
             trip == IF Len(byTripId) > 0 THEN <<byTripId[1]>> ELSE byKey
         IN open' = [IdleOpen EXCEPT
                       !.pc = IF Len(trip) > 0 THEN "check" ELSE "fetch",
                       !.tripIdParam = tripIdParam,
                       !.currentUserId = Coalesce(identity, null),
                       !.trip = trip]
    /\ UNCHANGED <<online, remote, db, nextKey, nextUuid, tx, sync, reader, ret, imp, exported>>

\* no local record: getTrip(tripIdParam), the owner comparison on the
\* fetched record, and the local record written from it
ensure_Fetch ==
    /\ open.pc = "fetch"
    /\ CanRun({"trips"})
    /\ LET found == {r \in remote.trips : r.trip_id = String(open.tripIdParam)}
       IN \E o \in Outcomes :
            IF online /\ o = "ok" /\ found # {}
            THEN LET data == CHOOSE r \in found : TRUE
                     remoteTripId == Coalesce(data.trip_id, String(open.tripIdParam))
                     existing == ToArray(WhereTripId(db.trips, remoteTripId))
                     row(key) == [dexieid |-> key, trip_id |-> remoteTripId,
                                  issync |-> SyncTrue,
                                  title |-> IF Truthy(data.title) THEN data.title ELSE Untitled,
                                  owner_id |-> data.owner_id]
                 IN IF Truthy(open.currentUserId) /\ data.owner_id # open.currentUserId
                    THEN /\ open' = [open EXCEPT !.pc = "done", !.refreshed = TRUE,
                                                 !.checked = TRUE, !.accessDenied = TRUE]
                         /\ UNCHANGED <<db, nextKey>>
                    ELSE IF Len(existing) > 0
                    THEN /\ db' = [db EXCEPT !["trips"] =
                                     (@ \ {existing[1]}) \cup {row(existing[1].dexieid)}]
                         /\ open' = [open EXCEPT !.pc = "sync1", !.refreshed = TRUE,
                                                 !.checked = Truthy(open.currentUserId),
                                                 !.trip = <<row(existing[1].dexieid)>>]
                         /\ UNCHANGED nextKey
                    ELSE /\ nextKey["trips"] <= MaxTrips
                         /\ db' = [db EXCEPT !["trips"] = @ \cup {row(nextKey["trips"])}]
                         /\ nextKey' = [nextKey EXCEPT !["trips"] = @ + 1]
                         /\ open' = [open EXCEPT !.pc = "sync1", !.refreshed = TRUE,
                                                 !.checked = Truthy(open.currentUserId),
                                                 !.trip = <<row(nextKey["trips"])>>]
            ELSE /\ open' = [open EXCEPT !.pc = "done"]
                 /\ UNCHANGED <<db, nextKey>>
    /\ UNCHANGED <<online, remote, nextUuid, tx, sync, reader, ret, imp, exported>>

\* await syncTripFromSupabase(...): after the fetch, and after the owner comparison
ensure_Sync ==
    /\ open.pc \in {"sync1", "sync2"}
    /\ syncTripFromSupabase_Call(open.trip[1].trip_id)
    /\ open' = IF sync'.pc = "idle" /\ ret'.raised
               THEN [open EXCEPT !.pc = "done", !.raised = TRUE]
               ELSE [open EXCEPT !.pc = IF @ = "sync1" THEN "await1" ELSE "await2"]

\* the awaited reconciliation has returned
ensure_Resume ==
    /\ open.pc \in {"await1", "await2"}
    /\ sync.pc = "idle"
    /\ open' = [open EXCEPT !.pc = IF @ = "await1" THEN "check" ELSE "done"]
    /\ UNCHANGED <<online, remote, db, nextKey, nextUuid, tx, sync, reader, ret, imp, exported>>

\* the owner comparison on the record in hand
ensure_Check ==
    /\ open.pc = "check"
    /\ LET trip == open.trip[1]
           deny == /\ Truthy(open.currentUserId)
                   /\ Truthy(trip.owner_id)
                   /\ trip.owner_id # open.currentUserId
       IN open' = [open EXCEPT
                     !.checked = @ \/ (Truthy(open.currentUserId) /\ Truthy(trip.owner_id)),
                     !.accessDenied = deny,
                     !.pc = IF ~deny /\ Truthy(trip.trip_id) THEN "sync2" ELSE "done"]
    /\ UNCHANGED <<online, remote, db, nextKey, nextUuid, tx, sync, reader, ret, imp, exported>>

ensure ==
    \/ ensure_Fetch
    \/ ensure_Sync
    \/ ensure_Resume
    \/ ensure_Check

----------------------------------------------------------------------------
(* Initial state: both stores empty, nothing in flight *)

Init ==
    /\ online = TRUE
    /\ remote = EmptyStore
    /\ db = EmptyStore
    /\ nextKey = [t \in Tables |-> 1]
    /\ nextUuid = 1
    /\ tx = NoTx
    /\ sync = IdleSync
    /\ reader = IdleReader
    /\ ret = NoRet
    /\ imp = IdleImp
    /\ exported = NoDoc
    /\ open = IdleOpen

----------------------------------------------------------------------------
(* SpecSync: one trip that was created online, with a traveler that was   *)
(* added to it offline (the state createTrip and addTraveler leave         *)
(* behind), and that was renamed since on another device or not; packing   *)
(* items are added online and offline, the trip is reconciled, and a       *)
(* reader reads the trip's children beside it.                             *)

SyncedTrip == [dexieid |-> 1, trip_id |-> Uuid(1), issync |-> SyncTrue,
               title |-> Title(1), owner_id |-> null]

InitSync ==
    /\ online = TRUE
    /\ remote \in {[EmptyStore EXCEPT !["trips"] =
                       {[trip_id |-> Uuid(1), title |-> title, owner_id |-> null]}] :
                    title \in {Title(1), Title(2)}}
    /\ db = [EmptyStore EXCEPT !["trips"] = {SyncedTrip},
                               !["travelers"] = {LocalTraveler(Uuid(1), Title(1), 1)}]
    /\ nextKey = [t \in Tables |-> Cardinality(db[t]) + 1]
    /\ nextUuid = 2
    /\ tx = NoTx
    /\ sync = IdleSync
    /\ reader = IdleReader
    /\ ret = NoRet
    /\ imp = IdleImp
    /\ exported = NoDoc
    /\ open = IdleOpen

NextSync ==
    \/ GoOnline
    \/ GoOffline
    \/ \E tripId \in TripIds : addPackingItem(tripId, Title(1), 1)
    \/ syncTripFromSupabase
    \/ ReadRequest
    \/ ReadDeliver

SpecSync == InitSync /\ [][NextSync]_vars

----------------------------------------------------------------------------
(* SpecImport: the trips page.  The local store holds one trip that was   *)
(* created offline, bare or with the children that were added to it        *)
(* offline; trips are exported, and a document (the exported one, or a     *)
(* file that came from elsewhere) is imported, once.                       *)

\* a key issued by a server the document came from
Foreign(i) == [t |-> "uuid", n |-> 0 - i]

\* a trip graph as another device exported it after a sync: an itinerary
\* item and an expense refer to a place and a traveler of the graph, another
\* itinerary item and another expense to records the graph does not hold;
\* the two packing items stand in the array against their order
GraphEntry ==
    [trip |-> <<[dexieid |-> 0, trip_id |-> Foreign(1), issync |-> SyncTrue,
                 title |-> Title(2), owner_id |-> undefined]>>,
     places |-> <<[dexieid |-> 0, place_id |-> Foreign(2), trip_id |-> Foreign(1),
                   issync |-> SyncTrue, title |-> Title(2)]>>,
     itinerary |-> <<[dexieid |-> 0, itinerary_id |-> Foreign(3), trip_id |-> Foreign(1),
                      issync |-> SyncTrue, day_index |-> 0, title |-> Title(2),
                      place_id |-> Foreign(2), order |-> 1],
                     [dexieid |-> 0, itinerary_id |-> Foreign(4), trip_id |-> Foreign(1),
                      issync |-> SyncTrue, day_index |-> 0, title |-> Title(3),
                      place_id |-> Foreign(9), order |-> 2]>>,
     packing |-> <<[dexieid |-> 0, packing_id |-> Foreign(5), trip_id |-> Foreign(1),
                    issync |-> SyncTrue, title |-> Title(2), completed |-> TRUE,
                    order |-> 2],
                   [dexieid |-> 0, packing_id |-> Foreign(11), trip_id |-> Foreign(1),
                    issync |-> SyncTrue, title |-> Title(3), completed |-> FALSE,
                    order |-> 1]>>,
     travelers |-> <<[dexieid |-> 0, traveler_id |-> Foreign(6), trip_id |-> Foreign(1),
                      issync |-> SyncTrue, name |-> Title(2)],
                     [dexieid |-> 0, traveler_id |-> Foreign(10), trip_id |-> Foreign(1),
                      issync |-> SyncTrue, name |-> Title(3)]>>,
     expenses |-> <<[dexieid |-> 0, expense_id |-> Foreign(7), trip_id |-> Foreign(1),
                     issync |-> SyncTrue, title |-> Title(2), amount |-> 1,
                     payer_id |-> Foreign(6),
                     charged_to |-> List(<<Foreign(10), Foreign(9), Foreign(6)>>)],
                    [dexieid |-> 0, expense_id |-> Foreign(8), trip_id |-> Foreign(1),
                     issync |-> SyncTrue, title |-> Title(3), amount |-> 1,
                     payer_id |-> Foreign(9), charged_to |-> List(<<>>)]>>]

\* a trip with one packing item
SmallEntry ==
    [trip |-> <<[dexieid |-> 0, trip_id |-> Str(1), issync |-> SyncUnset,
                 title |-> Title(3), owner_id |-> undefined]>>,
     places |-> <<>>, itinerary |-> <<>>,
     packing |-> <<[dexieid |-> 0, packing_id |-> undefined, trip_id |-> Str(1),
                    issync |-> SyncFalse, title |-> Title(3), completed |-> FALSE,
                    order |-> 1]>>,
     travelers |-> <<>>, expenses |-> <<>>]

\* an array element without a trip object
NoTripEntry ==
    [trip |-> <<>>, places |-> <<>>, itinerary |-> <<>>, packing |-> <<>>,
     travelers |-> <<>>, expenses |-> <<>>]

\* the files a user may pick: not JSON, an empty array, a single trip graph,
\* the array of that one graph, and an array whose second element has no trip
Files ==
    {[kind |-> "garbage", entries |-> <<>>, graph |-> <<>>],
     [kind |-> "array", entries |-> <<>>, graph |-> <<>>],
     [kind |-> "object", entries |-> <<GraphEntry>>, graph |-> <<>>],
     [kind |-> "array", entries |-> <<GraphEntry>>, graph |-> <<>>],
     [kind |-> "array", entries |-> <<SmallEntry, NoTripEntry>>, graph |-> <<>>]}

Documents == Files \cup (IF exported.kind = "none" THEN {} ELSE {exported})

\* the ids the trips page selects for export: trip_id ?? __dexieid
Selectable == {Coalesce(t.trip_id, Num(t.dexieid)) : t \in db.trips}

\* what createTrip, offline, leaves behind
OfflineTrip == [EmptyStore EXCEPT !["trips"] = {LocalTrip(Title(1), 1)}]

\* ... followed, still offline, by addTraveler, addExpense (paid by and
\* charged to that traveler, named by its handle) and addPackingItem
OfflineGraph ==
    [OfflineTrip EXCEPT
       !["travelers"] = {LocalTraveler(Str(1), Title(1), 1)},
       !["expenses"] = {LocalExpense(Str(1), Title(1), Str(1), <<Str(1)>>, 1)},
       !["packing"] = {LocalPackingItem(Str(1), Title(1), 1, 1)}]

InitImport ==
    /\ online = FALSE
    /\ remote = EmptyStore
    /\ db \in {OfflineTrip, OfflineGraph}
    /\ nextKey = [t \in Tables |-> Cardinality(db[t]) + 1]
    /\ nextUuid = 1
    /\ tx = NoTx
    /\ sync = IdleSync
    /\ reader = IdleReader
    /\ ret = NoRet
    /\ imp = IdleImp
    /\ exported = NoDoc
    /\ open = IdleOpen

NextImport ==
    \/ GoOnline
    \/ GoOffline
    \/ \E tripIds \in SUBSET Selectable \ {{}} : exportTripsData(tripIds)
    \/ \E doc \in Documents : \E identity \in {undefined, User(1)} :
          importTripsData_Parse(doc, identity)
    \/ importTripsData

SpecImport == InitImport /\ [][NextImport]_vars

----------------------------------------------------------------------------
(* SpecRepo: the trips page and the packing checklist from the first     *)
(* start on.  The operations on trips and on packing items are called,     *)
(* online and offline, with the ids the pages hold: a trip's id and key,   *)
(* and for an item its primary key when it was read from the local store   *)
(* or its server key when it was read from Supabase.  At most MaxKey       *)
(* records are created before the last one.                                *)

\* const itemId = it.__dexieid || it.packing_id || undefined
ItemIds(t) == {Num(r.dexieid) : r \in db[t]} \cup {RemoteId(t, r) : r \in remote[t]}

\* the number of records created so far, locally and on the server
Created ==
    nextKey["trips"] + nextKey["places"] + nextKey["itinerary"] + nextKey["packing"]
      + nextKey["travelers"] + nextKey["expenses"] - Cardinality(Tables) + nextUuid - 1

NextRepo ==
    \/ GoOnline
    \/ GoOffline
    \/ \E tripId \in TripIds \cup TripKeys : getTrip(tripId)
    \/ getUserTrips
    \/ Created <= MaxKey /\ createTrip(Title(1))
    \/ \E tripId \in TripIds \cup TripKeys : updateTrip(tripId, Title(2))
    \/ \E tripId \in TripIds \cup TripKeys : deleteTrip(tripId)
    \/ \E tripId \in TripIds \cup {null} : getPackingItems(tripId)
    \/ Created <= MaxKey /\ \E tripId \in TripIds : addPackingItem(tripId, Title(1), 1)
    \/ \E itemId \in ItemIds("packing") : updatePackingItem(itemId, TRUE)
    \/ \E itemId \in ItemIds("packing") : deletePackingItem(itemId)

SpecRepo == Init /\ [][NextRepo]_vars

----------------------------------------------------------------------------
(* SpecLists: the pages of one trip that was created online.  The list,    *)
(* add and delete operations of travelers, expenses, itinerary and packing *)
(* are called, online and offline; at most MaxKey child records are        *)
(* created before the last one.                                            *)

InitLists ==
    /\ online = TRUE
    /\ remote = [EmptyStore EXCEPT !["trips"] =
                    {[trip_id |-> Uuid(1), title |-> Title(1), owner_id |-> null]}]
    /\ db = [EmptyStore EXCEPT !["trips"] = {SyncedTrip}]
    /\ nextKey = [t \in Tables |-> Cardinality(db[t]) + 1]
    /\ nextUuid = 2
    /\ tx = NoTx
    /\ sync = IdleSync
    /\ reader = IdleReader
    /\ ret = NoRet
    /\ imp = IdleImp
    /\ exported = NoDoc
    /\ open = IdleOpen

\* the number of child records created so far: the trip has a local and a
\* remote record
ChildrenCreated == Created - Cardinality(db.trips) - Cardinality(remote.trips)

NextLists ==
    \/ GoOnline
    \/ GoOffline
    \/ \E tripId \in TripIds : getPackingItems(tripId)
    \/ ChildrenCreated < MaxKey /\ \E tripId \in TripIds : addPackingItem(tripId, Title(1), 1)
    \/ \E tripId \in TripIds : getTravelers(tripId)
    \/ ChildrenCreated < MaxKey /\ \E tripId \in TripIds : addTraveler(tripId, Title(1))
    \/ \E id \in ItemIds("travelers") : deleteTraveler(id)
    \/ \E tripId \in TripIds : getExpenses(tripId)
    \/ ChildrenCreated < MaxKey /\ \E tripId \in TripIds : \E payer \in TravelerHandles(tripId) :
          addExpense(tripId, Title(1), payer, <<payer>>)
    \/ \E id \in ItemIds("expenses") : deleteExpense(id)
    \/ \E tripId \in TripIds : getItineraryItems(tripId)
    \/ ChildrenCreated < MaxKey /\ \E tripId \in TripIds : addItineraryItem(tripId, Title(1), 0, 1)
    \/ \E id \in ItemIds("itinerary") : deleteItineraryItem(id)

SpecLists == InitLists /\ [][NextLists]_vars

----------------------------------------------------------------------------
(* SpecOpen: the trip page.  Supabase holds one trip, owned by user 1; the *)
(* local store holds its record (the trip was created on this device) or   *)
(* nothing (it was created on another).  The page is opened, online and    *)
(* offline, by its owner, by another user and without an identity, with    *)
(* the trip's id or with a local key in the URL.                           *)

OwnedTrip == [SyncedTrip EXCEPT !.owner_id = User(1)]

InitOpen ==
    /\ online = TRUE
    /\ remote = [EmptyStore EXCEPT !["trips"] =
                    {[trip_id |-> Uuid(1), title |-> Title(1), owner_id |-> User(1)]}]
    /\ db \in {EmptyStore, [EmptyStore EXCEPT !["trips"] = {OwnedTrip}]}
    /\ nextKey = [t \in Tables |-> Cardinality(db[t]) + 1]
    /\ nextUuid = 2
    /\ tx = NoTx
    /\ sync = IdleSync
    /\ reader = IdleReader
    /\ ret = NoRet
    /\ imp = IdleImp
    /\ exported = NoDoc
    /\ open = IdleOpen

\* the ids a URL of the trip page carries
UrlIds == {t.trip_id : t \in remote.trips} \cup {Str(k) : k \in 1..MaxTrips}

NextOpen ==
    \/ GoOnline
    \/ GoOffline
    \/ \E tripIdParam \in UrlIds : \E identity \in {undefined, User(1), User(2)} :
          ensure_Lookup(tripIdParam, identity)
    \/ ensure
    \/ syncTripFromSupabase_TxBegin
    \/ syncTripFromSupabase_TxStep
    \/ syncTripFromSupabase_Commit

SpecOpen == InitOpen /\ [][NextOpen]_vars

----------------------------------------------------------------------------
(* SpecLive: the device from the first start on, with what it runs by      *)
(* itself: a trip and packing items are created, online and offline, the   *)
(* lists are read again whenever a page asks for them, and the trip page   *)
(* reconciles the trip.  An operation that can run does run (weak          *)
(* fairness); connectivity comes and goes as it likes.                     *)

NextLive ==
    \/ GoOnline
    \/ GoOffline
    \/ Created < MaxKey /\ createTrip(Title(1))
    \/ Created < MaxKey /\ \E tripId \in TripIds : addPackingItem(tripId, Title(1), 1)
    \/ getUserTrips
    \/ \E tripId \in TripIds : getPackingItems(tripId)
    \/ syncTripFromSupabase

SpecLive ==
    /\ Init
    /\ [][NextLive]_vars
    /\ WF_vars(Created < MaxKey /\ createTrip(Title(1)))
    /\ WF_vars(Created < MaxKey /\ \E tripId \in TripIds : addPackingItem(tripId, Title(1), 1))
    /\ WF_vars(getUserTrips)
    /\ WF_vars(\E tripId \in TripIds : getPackingItems(tripId))
    /\ WF_vars(syncTripFromSupabase)

----------------------------------------------------------------------------
(* SpecKeys: one trip that was created online and reconciled since, so     *)
(* that the local store holds its record and the record of its packing     *)
(* item, both under the keys Supabase issued.  The trip and the item are   *)
(* edited, online and offline, and the trip is reconciled again.           *)

InitKeys ==
    /\ online = TRUE
    /\ remote = [EmptyStore EXCEPT
                   !["trips"] = {[trip_id |-> Uuid(1), title |-> Title(1), owner_id |-> null]},
                   !["packing"] = {[packing_id |-> Uuid(2), trip_id |-> Uuid(1),
                                    title |-> Title(1), completed |-> FALSE, order |-> 1]}]
    /\ db = [EmptyStore EXCEPT
               !["trips"] = {SyncedTrip},
               !["packing"] = BulkAdd({}, SyncRows("packing",
                                 [NoRes EXCEPT !["packing"].data = SelectByTrip("packing", Uuid(1))]), 1)]
    /\ nextKey = [t \in Tables |-> Cardinality(db[t]) + 1]
    /\ nextUuid = 3
    /\ tx = NoTx
    /\ sync = IdleSync
    /\ reader = IdleReader
    /\ ret = NoRet
    /\ imp = IdleImp
    /\ exported = NoDoc
    /\ open = IdleOpen

NextKeys ==
    \/ GoOnline
    \/ GoOffline
    \/ \E tripId \in TripIds \cup TripKeys : updateTrip(tripId, Title(2))
    \/ \E itemId \in ItemIds("packing") : updatePackingItem(itemId, TRUE)
    \/ syncTripFromSupabase

SpecKeys == InitKeys /\ [][NextKeys]_vars

----------------------------------------------------------------------------
(* SpecOverlap: the trip page of a synchronized trip reconciles the trip   *)
(* twice, the second call starting at any moment of the first, while       *)
(* the one packing item Supabase holds for the trip is deleted by its      *)
(* remote key.                                                             *)

InitOverlap ==
    /\ online = TRUE
    /\ remote = [EmptyStore EXCEPT
                   !["trips"] = {[trip_id |-> Uuid(1), title |-> Title(1), owner_id |-> null]},
                   !["packing"] = {[packing_id |-> Uuid(2), trip_id |-> Uuid(1),
                                    title |-> Title(1), completed |-> FALSE, order |-> 1]}]
    /\ nextUuid = 3
    /\ db = [EmptyStore EXCEPT !["trips"] = {SyncedTrip}]
    /\ nextKey = [t \in Tables |-> Cardinality(db[t]) + 1]
    /\ tx = NoTx /\ sync = IdleSync /\ reader = IdleReader /\ ret = NoRet
    /\ imp = IdleImp /\ exported = NoDoc /\ open = IdleOpen

NextOverlap ==
    \/ \E r \in remote.packing : deletePackingItem(r.packing_id)
    \/ syncTripFromSupabase
    \/ \E t \in db.trips : syncTripFromSupabase_Overlap_Fetch(t.trip_id)
    \/ syncTripFromSupabase_Overlap_TxBegin
    \/ syncTripFromSupabase_Overlap_TxStep
    \/ syncTripFromSupabase_Overlap_Commit

SpecOverlap == InitOverlap /\ [][NextOverlap]_vars

----------------------------------------------------------------------------
(* Properties of the full trip reconciler (SpecSync) *)

\* C1: when one of the parallel selects of syncTripFromSupabase answered with
\* an error, the reconciliation is aborted: the trip's local children are as
\* they were when the transaction was opened, and the completed call reports
\* the failure to its caller.
SyncAbortsOnFetchError ==
    /\ (sync.pc \in {"tx", "commit"} /\ AnyFetchError(sync.res))
          => Children(db, sync.tripId) = sync.snap
    /\ (ret.op = "syncTripFromSupabase" /\ ret.fetchError) => ret.raised

----------------------------------------------------------------------------
(* Properties of the import/export engine (SpecImport) *)

\* importTripsData has returned
ImportReturned == imp.pc = "done" /\ ret.op = "importTripsData"

\* the document element a push result belongs to
EntryOf(result) ==
    CHOOSE e \in 1..Len(imp.local_trip_id) : imp.local_trip_id[e] = result.localTripId

\* the records importTripsData inserted into table t for document element e
Inserted(e, t) == ToArray({r \in db[t] : r.dexieid \in imp.keys[e][t]})

\* C3: once importTripsData has returned, for every trip that was pushed and
\* promoted, every child record inserted for it carries the new remote key as
\* trip_id, and no child record of any collection still carries the old
\* local key.
PromotionConsistency ==
    (ImportReturned /\ ret.kind = "success") =>
       \A i \in 1..Len(imp.results) : \A t \in ChildTables :
          /\ WhereTripId(db[t], imp.results[i].localTripId) = {}
          /\ \A r \in db[t] :
                r.dexieid \in imp.keys[EntryOf(imp.results[i])][t]
                   => r.trip_id = imp.results[i].supaTripId

\* an import has returned after promoting a trip whose children lie in at
\* least two collections
PromotionConsistencyWitness ==
    /\ ImportReturned /\ ret.kind = "success"
    /\ \E i \in 1..Len(imp.results) :
          /\ \E r \in db.trips : r.trip_id = imp.results[i].supaTripId /\ r.issync = SyncTrue
          /\ Cardinality({t \in ChildTables :
                            WhereTripId(db[t], imp.results[i].supaTripId) # {}}) >= 2

\* a reference (payer_id, an element of charged_to) names a traveler by its
\* handle String(__dexieid) or by its traveler_id
RefersToTraveler(ref, traveler) ==
    Truthy(ref) /\ (String(ref) = Str(traveler.dexieid) \/ ref = traveler.traveler_id)

\* an itinerary item's place_id names a place by its key or by its place_id
RefersToPlace(ref, place) ==
    Truthy(ref) /\ (String(ref) = Str(place.dexieid) \/ ref = place.place_id)

\* C4: when the imported document is the one exportTripsData produced, the
\* import succeeds and every exported trip has an imported counterpart with
\* the same field values, the same number of children in every collection
\* with the same field values, and references (payer_id, charged_to,
\* place_id) that name the counterparts of the records the originals named.
RoundTrip ==
    (ImportReturned /\ imp.doc.graph # <<>>) =>
       /\ ret.kind = "success"
       /\ \A e \in 1..Len(imp.doc.graph) :
            LET old == imp.doc.graph[e]
                trip == Inserted(e, "trips")
                places == Inserted(e, "places")
                itinerary == Inserted(e, "itinerary")
                packing == Inserted(e, "packing")
                travelers == Inserted(e, "travelers")
                expenses == Inserted(e, "expenses")
            IN /\ Len(trip) = 1 /\ trip[1].title = old.trip[1].title
               /\ Len(places) = Len(old.places)
               /\ Len(itinerary) = Len(old.itinerary)
               /\ Len(packing) = Len(old.packing)
               /\ Len(travelers) = Len(old.travelers)
               /\ Len(expenses) = Len(old.expenses)
               /\ \A i \in 1..Len(places) : places[i].title = old.places[i].title
               /\ \A i \in 1..Len(travelers) : travelers[i].name = old.travelers[i].name
               /\ \A i \in 1..Len(packing) :
                     /\ packing[i].title = old.packing[i].title
                     /\ packing[i].completed = old.packing[i].completed
                     /\ packing[i].order = old.packing[i].order
               /\ \A i \in 1..Len(itinerary) :
                     /\ itinerary[i].title = old.itinerary[i].title
                     /\ itinerary[i].day_index = old.itinerary[i].day_index
                     /\ itinerary[i].order = old.itinerary[i].order
                     /\ \A j \in 1..Len(places) :
                           RefersToPlace(itinerary[i].place_id, places[j])
                              <=> RefersToPlace(old.itinerary[i].place_id, old.places[j])
               /\ \A i \in 1..Len(expenses) :
                     /\ expenses[i].title = old.expenses[i].title
                     /\ expenses[i].amount = old.expenses[i].amount
                     /\ \A j \in 1..Len(travelers) :
                           RefersToTraveler(expenses[i].payer_id, travelers[j])
                              <=> RefersToTraveler(old.expenses[i].payer_id, old.travelers[j])
                     /\ expenses[i].charged_to.kind = old.expenses[i].charged_to.kind
                     /\ Len(expenses[i].charged_to.items) = Len(old.expenses[i].charged_to.items)
                     /\ \A k \in 1..Len(expenses[i].charged_to.items) :
                        \A j \in 1..Len(travelers) :
                           RefersToTraveler(expenses[i].charged_to.items[k], travelers[j])
                              <=> RefersToTraveler(old.expenses[i].charged_to.items[k],
                                                   old.travelers[j])

\* C5: after importTripsData has returned, the payer_id of every expense it
\* inserted is unset or the new key of a traveler it inserted for the same
\* trip; an old key that is no traveler_id of the document does not survive.
DanglingPayerUnset ==
    ImportReturned =>
       \A e \in 1..Len(imp.keys) : \A x \in db.expenses :
          x.dexieid \in imp.keys[e]["expenses"] =>
             \/ x.payer_id \in {undefined, null}
             \/ \E k \in imp.keys[e]["travelers"] : x.payer_id \in {Num(k), Str(k)}

\* C10: whenever importTripsData returns {success: false}, the local store
\* holds exactly the records it held when the call was made.
FailedImportWritesNothing ==
    (ImportReturned /\ ret.kind = "failure") => db = imp.before

\* ---- the repositories ----

RepositoryOps ==
    {"getTrip", "getUserTrips", "createTrip", "updateTrip", "deleteTrip",
     "getPackingItems", "addPackingItem", "updatePackingItem", "deletePackingItem",
     "getTravelers", "addTraveler", "deleteTraveler",
     "getExpenses", "addExpense", "deleteExpense",
     "getItineraryItems", "addItineraryItem", "deleteItineraryItem"}

\* C7: a repository operation that ran while isOnline() answered false made no
\* call to Supabase and raised nothing to its caller.
OfflineFallbackTotal ==
    (ret.op \in RepositoryOps /\ ~ret.online) => (ret.remoteCalls = 0 /\ ~ret.raised)

ListOps == {"getPackingItems", "getTravelers", "getExpenses", "getItineraryItems"}

\* what Supabase holds for the collection a list operation reads
RemoteList(op, tripId) ==
    CASE op = "getPackingItems" -> RemotePacking(tripId)
      [] op = "getTravelers" -> RemoteTravelers(tripId)
      [] op = "getExpenses" -> RemoteExpenses(tripId)
      [] op = "getItineraryItems" -> RemoteItinerary(tripId)

\* what Dexie holds for the collection a list operation reads
LocalList(op, tripId) ==
    CASE op = "getPackingItems" -> LocalPacking(tripId)
      [] op = "getTravelers" -> ToArray(WhereTripId(db.travelers, tripId))
      [] op = "getExpenses" -> ToArray(WhereTripId(db.expenses, tripId))
      [] op = "getItineraryItems" -> LocalItinerary(tripId)

\* a list operation was the last repository call and isOnline() answered true
ListedOnline == ret.op \in ListOps /\ ret.online /\ Truthy(ret.arg)

\* C8 (as stated): a list operation that ran while isOnline() answered true
\* returned the rows Supabase holds for the trip, hence every remote write
\* that completed before the call.
FreshWhileOnline ==
    ListedOnline => ret.rows = RemoteList(ret.op, ret.arg)

\* C8 (amended): a list operation that ran while isOnline() answered true
\* returned the rows Supabase holds for the trip when its select succeeded,
\* and the rows of the local store when the select failed.
FreshWhenSelectSucceeds ==
    ListedOnline =>
        ret.rows = IF ret.fetchError THEN LocalList(ret.op, ret.arg)
                   ELSE RemoteList(ret.op, ret.arg)

\* a list operation ran online, its select succeeded, and it returned a row
\* written to Supabase that the local store does not hold
FreshWhenSelectSucceedsWitness ==
    /\ ListedOnline /\ ~ret.fetchError
    /\ Len(ret.rows) > 0
    /\ Len(LocalList(ret.op, ret.arg)) = 0

----------------------------------------------------------------------------
(* Properties of the trip page (SpecOpen) *)

\* C6: whenever ensure() has compared the caller's identity with the owner
\* of a trip, the trip's record had been read from Supabase earlier in the
\* same request.
AccessCheckAfterRefresh == open.checked => open.refreshed

----------------------------------------------------------------------------
(* Properties of the offline queue (SpecLive) *)

\* the local record with primary key k of table t has no server-issued key
NoRemoteKey(t, k) ==
    \E r \in db[t] : r.dexieid = k /\ RemoteId(t, r).t # "uuid"

\* the local record with primary key k of table t has a server-issued key
\* and is marked synchronized
Promoted(t, k) ==
    \E r \in db[t] : r.dexieid = k /\ RemoteId(t, r).t = "uuid" /\ r.issync = SyncTrue

\* C9: when connectivity returns and stays, every local trip and packing
\* item that has no server-issued key is eventually promoted: it acquires a
\* server-issued key and issync = true.
OfflineChangesSynchronized ==
    <>[]online =>
        \A t \in {"trips", "packing"} : \A k \in 1..MaxKey :
            NoRemoteKey(t, k) ~> Promoted(t, k)

----------------------------------------------------------------------------
(* Properties of the delete operations (SpecRepo, SpecLists) *)

\* C11: after deleteTrip has returned true, the local store holds no record
\* of the trip and no child record whose trip_id refers to it.  The trip is
\* known by the id the call was given and by the trip_id of the local
\* records that id named.
DeleteTripLeavesNoOrphans ==
    LET DeletedTripIds ==
          {ret.arg, String(ret.arg)}
             \cup {ret.before[i].trip_id : i \in 1..Len(ret.before)}
    IN (ret.op = "deleteTrip" /\ ret.kind = "true") =>
          /\ \A r \in db.trips : /\ r.trip_id \notin DeletedTripIds
                                 /\ ~(IsNumber(ret.arg) /\ r.dexieid = ret.arg.n)
          /\ \A t \in ChildTables : \A r \in db[t] : r.trip_id \notin DeletedTripIds

\* C12: a delete operation of which exactly one of the remote delete and
\* the local delete succeeded returned true.  The local delete took effect
\* when a record it was aimed at is gone from its table, the remote one
\* when it was made and answered without error.
DivergentDeleteReportsSuccess ==
    LET DeleteTable ==
          [deleteTrip |-> "trips", deletePackingItem |-> "packing",
           deleteTraveler |-> "travelers", deleteExpense |-> "expenses",
           deleteItineraryItem |-> "itinerary"]
        LocalDeleteDone ==
          \E i \in 1..Len(ret.before) : ret.before[i] \notin db[DeleteTable[ret.op]]
        RemoteDeleteDone == ret.remoteCalls > 0 /\ ~ret.fetchError
    IN (ret.op \in DOMAIN DeleteTable /\ LocalDeleteDone # RemoteDeleteDone)
          => ret.kind = "true"

----------------------------------------------------------------------------
(* Properties of the access decision (SpecOpen) *)

\* C13: the trip page denies access exactly when the caller is neither the
\* trip's owner nor in its share list (no operation adds a member to a share
\* list, so the caller is in none: exactly when the caller is not the owner).
\* ensure() has decided when it denied access or went on with the trip's
\* record in hand; the owner is that of the record in hand, or of the
\* fetched record when access was denied on it.
AccessDecision ==
    LET Decided == /\ open.pc = "done" /\ ~open.raised
                   /\ (open.accessDenied \/ Len(open.trip) > 0)
        DecidedOwner ==
          IF Len(open.trip) > 0 THEN open.trip[1].owner_id
          ELSE (CHOOSE r \in remote.trips :
                   r.trip_id = String(open.tripIdParam)).owner_id
    IN Decided => (open.accessDenied <=> open.currentUserId # DecidedOwner)

----------------------------------------------------------------------------
(* Properties of the write fallback (SpecRepo, SpecLists) *)

\* C14: a write (add or update) applied to the local store because Supabase
\* was unreachable leaves the written record, which the call returns, with
\* issync = false.
FallbackWritesUnsynchronized ==
    LET WriteOps == {"createTrip", "updateTrip", "addPackingItem", "updatePackingItem",
                     "addTraveler", "addExpense", "addItineraryItem"}
    IN (ret.op \in WriteOps /\ ~ret.online /\ ret.kind = "row") =>
          \A i \in 1..Len(ret.rows) : ret.rows[i].issync = SyncFalse

----------------------------------------------------------------------------
(* Properties of the read path after a successful select (SpecLists) *)

\* C15: after a list operation has succeeded against Supabase, the local
\* store holds for that trip the records the operation returned (told by
\* their Supabase ids, in the order of the list), so that an offline read
\* of the same collection right after returns the same records.
OnlineReadsRepopulateCache ==
    LET ListTable == [getPackingItems |-> "packing", getTravelers |-> "travelers",
                      getExpenses |-> "expenses", getItineraryItems |-> "itinerary"]
        RemoteIds(rows) == [i \in 1..Len(rows) |-> RemoteId(ListTable[ret.op], rows[i])]
    IN (ListedOnline /\ ~ret.fetchError) =>
          RemoteIds(LocalList(ret.op, ret.arg)) = RemoteIds(ret.rows)

----------------------------------------------------------------------------
(* Properties of the push that ends an import (SpecImport) *)

\* C16: when the push that ends importTripsData is skipped or fails, the
\* import still reports success, every imported trip that was not pushed
\* (importTripsToSupabase returned no result for it) keeps its local key as
\* trip_id and is not flagged issync: true, and each of its imported
\* children carries that local key as trip_id.
BestEffortPush ==
    LET PushReturned ==
          /\ ImportReturned
          /\ Len(TripsData(imp.doc)) > 0
          /\ Len(imp.local_trip_id) = Len(TripsData(imp.doc))
        NotPushed(e) ==
          \A i \in 1..Len(imp.results) :
             imp.results[i].localTripId # imp.local_trip_id[e]
    IN PushReturned =>
          /\ ret.kind = "success"
          /\ \A e \in 1..Len(imp.local_trip_id) :
                NotPushed(e) =>
                   /\ \A r \in db.trips :
                         r.dexieid \in imp.keys[e]["trips"] =>
                            r.trip_id = imp.local_trip_id[e] /\ r.issync # SyncTrue
                   /\ \A t \in ChildTables : \A r \in db[t] :
                         r.dexieid \in imp.keys[e][t] => r.trip_id = imp.local_trip_id[e]

----------------------------------------------------------------------------
(* Properties of reads by a key Supabase cannot hold (SpecRepo) *)

\* C17: getTrip or a list operation given a numeric local key or null
\* answers from the local store without any call to Supabase, also when
\* Supabase is reachable.
NoRemoteCallForLocalKey ==
    (/\ ret.op \in {"getTrip"} \cup ListOps
     /\ (IsNumber(ret.arg) \/ ret.arg = null)) => ret.remoteCalls = 0

----------------------------------------------------------------------------
(* Properties of the two document formats (SpecImport) *)

\* C18: importTripsData accepts a document that is a single trip-graph
\* object and imports it exactly as the one-element array holding that
\* object: for a one-trip document in either format success is reported,
\* one trip is inserted under a new key with the graph's title, and every
\* collection of the graph is inserted in full.
SingleObjectAsArray ==
    LET ImportedAsArrayOf(graph) ==
          /\ ret.kind = "success"
          /\ Len(imp.local_trip_id) = 1
          /\ \E r \in db.trips :
                /\ imp.keys[1]["trips"] = {r.dexieid}
                /\ r.title = Coalesce(graph.trip[1].title, Untitled)
          /\ \A t \in Tables \ {"trips"} :
                /\ Cardinality(imp.keys[1][t]) = Len(graph[t])
                /\ \A k \in imp.keys[1][t] : \E r \in db[t] : r.dexieid = k
    IN /\ (ImportReturned /\ imp.doc.kind = "object")
             => ImportedAsArrayOf(imp.doc.entries[1])
       /\ (ImportReturned /\ imp.doc.kind = "array" /\ Len(imp.doc.entries) = 1)
             => ImportedAsArrayOf(imp.doc.entries[1])

\* a document that is a single object has been imported, its two expenses
\* included
SingleObjectAsArrayWitness ==
    /\ ImportReturned /\ imp.doc.kind = "object"
    /\ Cardinality(imp.keys[1]["expenses"]) = 2

----------------------------------------------------------------------------
(* Properties of the outcome of a reconciliation (SpecSync) *)

\* C19: when syncTripFromSupabase completes with all fetches successful
\* (the body of its transaction has run to the end and no fetch answered
\* with an error), the local records of the trip in itinerary, packing,
\* travelers and expenses correspond one-to-one to the fetched remote
\* records, and each of them has issync = true.
ReconciliationResult ==
    (sync.pc = "commit" /\ ~AnyFetchError(sync.res)) =>
        \A t \in {"itinerary", "packing", "travelers", "expenses"} :
           LET local == WhereTripId(db[t], sync.tripId)
               data == sync.res[t].data
           IN /\ Cardinality(local) = Len(data)
              /\ \A i \in 1..Len(data) :
                    \E r \in local : RemoteId(t, r) = RemoteId(t, data[i])
              /\ \A r \in local : r.issync = SyncTrue

\* a reconciliation with all fetches successful has replaced a local-only
\* traveler by nothing and brought in a fetched packing item
ReconciliationResultWitness ==
    /\ sync.pc = "commit" /\ ~AnyFetchError(sync.res)
    /\ sync.snap["travelers"] # {} /\ WhereTripId(db.travelers, sync.tripId) = {}
    /\ Len(sync.res["packing"].data) > 0

----------------------------------------------------------------------------
(* Properties of the promotion as other readers see it (SpecImport) *)

\* C20: the promotion rewrites the trip's key and the trip_id of every
\* child in one transaction: in no state that a reader of the local store
\* can be served does a promoted trip (its record carries the key Supabase
\* issued) have a child that still carries the old local key.
PromotionAtomic ==
    LET TripPromoted(result) ==
          \E r \in db.trips : /\ r.dexieid \in imp.keys[EntryOf(result)]["trips"]
                              /\ r.trip_id = result.supaTripId
        ChildrenNotPromoted(result) ==
          {r \in UNION {db[t] : t \in ChildTables} : r.trip_id = result.localTripId}
    IN TablesFree(Tables) =>
          \A i \in 1..Len(imp.results) :
             TripPromoted(imp.results[i]) => ChildrenNotPromoted(imp.results[i]) = {}

----------------------------------------------------------------------------
(* Properties of the references of imported records (SpecImport) *)

\* C21: after importTripsData, the charged_to list of every expense it
\* inserted holds, in the order of the document's list, the new keys of the
\* travelers inserted for the same trip whose old traveler_id the
\* document's elements name; an element that names no traveler of the
\* document's trip is gone.
DanglingChargedToDropped ==
    ImportReturned =>
       \A e \in 1..Len(imp.keys) :
          LET graph == TripsData(imp.doc)[e]
              travelers == graph.travelers
              HasEntry(old) == \E i \in 1..Len(travelers) :
                                  /\ travelers[i].traveler_id # undefined
                                  /\ String(travelers[i].traveler_id) = String(old)
              \* the key of the i-th traveler and of the i-th expense inserted
              TravelerKey(i) == CHOOSE k \in imp.keys[e]["travelers"] :
                                   Cardinality({j \in imp.keys[e]["travelers"] : j < k}) = i - 1
              ExpenseKey(i) == CHOOSE k \in imp.keys[e]["expenses"] :
                                   Cardinality({j \in imp.keys[e]["expenses"] : j < k}) = i - 1
          IN \A i \in 1..Len(graph.expenses) :
                IsArray(graph.expenses[i].charged_to) =>
                   \E x \in db.expenses :
                      /\ x.dexieid = ExpenseKey(i)
                      /\ IsArray(x.charged_to)
                      /\ LET kept == SelectSeq(graph.expenses[i].charged_to.items, HasEntry)
                             new == x.charged_to.items
                         IN /\ Len(new) = Len(kept)
                            /\ \A j \in 1..Len(new) :
                                  \E t \in 1..Len(travelers) :
                                     /\ travelers[t].traveler_id # undefined
                                     /\ String(travelers[t].traveler_id) = String(kept[j])
                                     /\ new[j] = Num(TravelerKey(t))

\* an import has returned after it dropped one element of a charged_to list
\* and kept two others
DanglingChargedToDroppedWitness ==
    /\ ImportReturned
    /\ \E e \in 1..Len(imp.keys) : \E i \in 1..Len(TripsData(imp.doc)[e].expenses) :
          /\ Len(TripsData(imp.doc)[e].expenses[i].charged_to.items) = 3
          /\ \E x \in db.expenses : /\ x.dexieid \in imp.keys[e]["expenses"]
                                    /\ Len(x.charged_to.items) = 2

\* C22: after importTripsData has returned, the place_id of every itinerary
\* item it inserted is unset or the new key of a place it inserted for the
\* same trip; an old place_id that is no place_id of the document does not
\* survive.
DanglingPlaceUnset ==
    ImportReturned =>
       \A e \in 1..Len(imp.keys) : \A x \in db.itinerary :
          x.dexieid \in imp.keys[e]["itinerary"] =>
             \/ x.place_id \in {undefined, null}
             \/ \E k \in imp.keys[e]["places"] : x.place_id \in {Num(k), Str(k)}

----------------------------------------------------------------------------
(* Properties of the trip record after a reconciliation (SpecSync) *)

\* C23: a successful run of syncTripFromSupabase refreshes, before it
\* completes, the trip's own record from Supabase: when the run is at its
\* end the local trip record carries the title and the owner that Supabase
\* holds for the trip.
MetadataRefreshed ==
    (sync.pc = "commit" /\ ~AnyFetchError(sync.res)) =>
        \A r \in WhereTripId(db.trips, sync.tripId) :
           \A m \in remote.trips :
              m.trip_id = String(sync.tripId) =>
                 r.title = m.title /\ r.owner_id = m.owner_id

----------------------------------------------------------------------------
(* Properties of the server-issued keys of local records *)

----------------------------------------------------------------------------
(* Properties of the order of imported records (SpecImport) *)

\* C25: for any two packing items, or two itinerary items of the same day,
\* of one trip of the imported document, the one with the smaller order has
\* the smaller order among the imported records too, in the local store and
\* in the rows pushed to Supabase.  The i-th element of the document went
\* into the i-th key issued for its collection, locally and remotely.
OrderSurvivesImport ==
    ImportReturned =>
       \A e \in 1..Len(imp.keys) : \A t \in {"packing", "itinerary"} :
          LET doc == TripsData(imp.doc)[e][t]
              inserted == {r \in db[t] : r.dexieid \in imp.keys[e][t]}
              pushed == {r \in remote[t] :
                           \E i \in 1..Len(imp.results) :
                              /\ imp.results[i].localTripId = imp.local_trip_id[e]
                              /\ r.trip_id = imp.results[i].supaTripId}
              Local(i) == CHOOSE r \in inserted :
                             Cardinality({q \in inserted : q.dexieid < r.dexieid}) = i - 1
              Pushed(i) == CHOOSE r \in pushed :
                              Cardinality({q \in pushed :
                                             RemoteId(t, q).n < RemoteId(t, r).n}) = i - 1
          IN \A a, b \in 1..Len(doc) :
                (/\ doc[a].order < doc[b].order
                 /\ t = "itinerary" => doc[a].day_index = doc[b].day_index)
                   => /\ Cardinality(inserted) = Len(doc)
                      /\ Local(a).order < Local(b).order
                      /\ pushed # {} => /\ Cardinality(pushed) = Len(doc)
                                        /\ Pushed(a).order < Pushed(b).order

\* an import has returned after it inserted and pushed two packing items
\* that stand in the document against their order
OrderSurvivesImportWitness ==
    /\ ImportReturned
    /\ Len(imp.results) > 0
    /\ \E r \in remote.packing : r.trip_id = imp.results[1].supaTripId
    /\ LET doc == TripsData(imp.doc)[1].packing
       IN Len(doc) = 2 /\ doc[2].order < doc[1].order

----------------------------------------------------------------------------
(* Properties of the records a reconciliation removes (SpecSync) *)

\* C26: syncTripFromSupabase removes from the local store no child record
\* whose issync is not true: every such record of the trip that was there
\* when the transaction began is there when it ends.
UnsyncedWorkSurvives ==
    sync.pc = "commit" =>
        \A t \in ChildTables : \A r \in sync.snap[t] :
           r.issync # SyncTrue => r \in db[t]

----------------------------------------------------------------------------
(* Properties of the trips an import flags as synchronized (SpecImport) *)

\* C27: importTripsData gives a local trip the key Supabase issued, with
\* issync: true, only when the whole graph of the trip reached Supabase:
\* for every such trip Supabase holds as many rows of each collection as
\* the document holds for the trip.
PromotedOnlyWhenGraphPushed ==
    ImportReturned =>
       \A i \in 1..Len(imp.results) :
          LET result == imp.results[i]
              e == EntryOf(result)
          IN (\E r \in db.trips : /\ r.dexieid \in imp.keys[e]["trips"]
                                  /\ r.trip_id = result.supaTripId
                                  /\ r.issync = SyncTrue)
                => \A t \in ChildTables :
                      Cardinality({r \in remote[t] : r.trip_id = result.supaTripId})
                         = Len(TripsData(imp.doc)[e][t])

----------------------------------------------------------------------------
(* Properties of what the add operations return (SpecRepo) *)

\* C28: an add operation (createTrip, addPackingItem, addTraveler,
\* addExpense, addItineraryItem) never answers null: whatever the remote
\* call did, it returns one record, and that record is held by Supabase or
\* by the local store.
AddReturnsStoredRecord ==
    LET table == [createTrip |-> "trips", addPackingItem |-> "packing",
                  addTraveler |-> "travelers", addExpense |-> "expenses",
                  addItineraryItem |-> "itinerary"]
    IN ret.op \in DOMAIN table =>
          /\ ret.kind = "row"
          /\ Len(ret.rows) = 1
          /\ LET t == table[ret.op]
             IN \/ ret.rows[1] \in db[t]
                \/ \E m \in remote[t] : RemoteId(t, m) = RemoteId(t, ret.rows[1])

----------------------------------------------------------------------------
(* Properties of the delete operations that answer false (SpecRepo) *)

\* C29: after a delete operation (deleteTrip, deletePackingItem,
\* deleteTraveler, deleteExpense, deleteItineraryItem) has answered false,
\* the local store still holds every record the call aimed at.
FailedDeleteKeepsRecord ==
    LET table == [deleteTrip |-> "trips", deletePackingItem |-> "packing",
                  deleteTraveler |-> "travelers", deleteExpense |-> "expenses",
                  deleteItineraryItem |-> "itinerary"]
    IN (ret.op \in DOMAIN table /\ ret.kind = "false") =>
          \A i \in 1..Len(ret.before) : ret.before[i] \in db[table[ret.op]]

----------------------------------------------------------------------------
(* Properties of two reconciliations of one trip that overlap (SpecOverlap) *)

\* C30: when a syncTripFromSupabase call commits, whatever other call for
\* the same trip ran beside it (fetching earlier or later, its transaction
\* before or after), the trip's local children are exactly the rows this
\* call fetched, and no two of them carry the same remote key.
OverlapKeepsOneCopy ==
    LET slice == Children(db, Uuid(1))
        oneCopy == \A t \in ChildTables : \A r, q \in slice[t] :
                      RemoteId(t, r) = RemoteId(t, q) => r = q
    IN /\ sync.pc = "commit" => (slice = sync.post /\ oneCopy)
       /\ sync.overlap.pc = "commit" => (slice = sync.overlap.post /\ oneCopy)

\* the first call fetched the packing item, the item was deleted, the
\* second call fetched nothing, ran its transaction and returned, and the
\* first call commits last
OverlapKeepsOneCopyWitness ==
    /\ sync.pc = "commit"
    /\ sync.overlap.pc = "idle" /\ sync.overlap.tripId = sync.tripId
    /\ ~AnyFetchError(sync.res) /\ ~AnyFetchError(sync.overlap.res)
    /\ Len(sync.res["packing"].data) > Len(sync.overlap.res["packing"].data)

====
